---- MODULE Spec2Model ----
(***************************************************************************)
(* Model of the log ingestion pipeline of bankmotion/log-code:             *)
(*   src/index.ts            processGender, parseLargeJsonFile,            *)
(*                           processBatchSSHChecks, main loop              *)
(*   src/unnamed/part_000    utils/s3.ts (listAllFolders, downloadFolder,  *)
(*                           doesS3Exist, rcloneCopy)                      *)
(*   src/unnamed/part_004    utils/urlIdentifier.ts and utils/fileUtils.ts *)
(*   src/utils/database.ts   sqlQuery                                      *)
(*                                                                         *)
(* Spec     partition level: catalog, fetch, merge, upload, verify, commit,*)
(*          over several runs of the process with crashes and restarts.    *)
(* SpecSSH  file level: concurrent parseLargeJsonFile tasks of one batch   *)
(*          and the existence batcher processBatchSSHChecks.               *)
(***************************************************************************)
EXTENDS Integers, Sequences, FiniteSets, TLC

(* ---------------------------------------------------------------------- *)
(* Bounds                                                                  *)
(* ---------------------------------------------------------------------- *)
MaxDates == 3        \* number of distinct date keys the bucket can hold
MaxRuns == 3         \* number of invocations of the process
NumTasks == 2        \* files of the batch that are classified concurrently
MaxLines == 1        \* lines of a short log file
MaxSlowFiles == 2    \* files of the partition that may hang or fail
MaxKeys == 2         \* objects of a partition beyond a whole number of groups
MaxRecords == 2      \* records of the first log file of a partition
MaxAdds == 3         \* calls of addToHtmlMap
MaxFailures == 2     \* flushes of html_map inserts that fail
MaxCalls == 2        \* calls of sqlQuery
MaxResolves == 3     \* calls of identifyItem by the concurrent file tasks
MaxUrls == 2         \* distinct URL keys (md5Item) the calls resolve
MaxIds == 2          \* distinct identifiers a lookup can find

Dates == 1..MaxDates \* a date key YYYYMMDD, ordered as its string is

(* ---------------------------------------------------------------------- *)
(* Program constants                                                       *)
(* ---------------------------------------------------------------------- *)
bucketName == "aznude-logs"
bucketNameClean == "aznude-clean-logs"
genders == <<"f">>
BATCH_SIZE == 30
MaxAttempts == 10
BackoffMs == 10000
FILE_BATCH_SIZE == 100
DOWNLOAD_BATCH_SIZE == 20   \* BATCH_SIZE of downloadFolder
MAX_SET_SIZE == 5000000
HTML_MAP_BATCH_SIZE == 100
CLOUDFLARE_LOG_DIR == "./logs"   \* process.env.CLOUDFLARE_LOG_DIR || './logs'
notFoundDir == "./logs"          \* the directory of notFoundFile
connectionLimit == 10
databaseGlobal == "aznude"      \* config.databases.AZNUDE, for gender f
BRAZZERS == "brazzers"          \* config.databases.BRAZZERS

VARIABLES
  pc,              \* position of the run in main / processGender
  runs,            \* invocations of the process started so far
  bucket,          \* date folders present in the source bucket
  sortedFolders,   \* processGender: sortedFolders
  filteredFolders, \* processGender: filteredFolders
  existingDates,   \* processGender: existingDates
  idx,             \* position of the partition loop in filteredFolders
  logs,            \* the `logs` table of databaseGlobal, in insertion order
  archive,         \* date keys whose <date>.txt rclone has written to R2
  sameAccount,     \* the R2 client reads the account rclone writes to
  staging,         \* local artifacts under CLOUDFLARE_LOG_DIR
  runLog,          \* what the current run has done so far (history)
  genderResults,   \* main: genderResults of the current run
  crashedAfterUpload, \* date keys whose run died between upload and insert
  sshAuthFailed,   \* processGender: sshAuthFailed
  authLogged,      \* how often the authentication warning has been logged
  probedAfterAuth, \* the probe command was executed with sshAuthFailed set
  task,            \* per file task of the batch: parseLargeJsonFile state
  files,           \* processGender: number of entries of `files`
  bi,              \* processGender: i of the batch loop
  bpc,             \* position of processGender in the batch loop
  parse,           \* per file: state of the parseLargeJsonFile promise
  completionTracker, \* per file: entry of completionTracker
  batchResults,    \* per file: entry of batchResults
  tempOutFile,     \* per file: lines written to output/<fileName>, or -1
  waitEnded,       \* what ended the wait on the current batch
  totalProcessed,  \* processGender: totalProcessed
  totalErrors,     \* processGender: totalErrors
  fileKeys,        \* downloadFolder: number of entries of fileKeys
  fi,              \* downloadFolder: i of the group loop
  fpc,             \* position of downloadFolder
  pending,         \* downloadSingleFile calls of the current group in flight
  inflight,        \* downloadSingleFile calls in flight
  totalDownloaded, \* downloadFolder: totalDownloaded
  requested,       \* objects for which downloadSingleFile has been called
  logFiles,        \* the .log.gz files of the partition, by name
  rpc,             \* position of processGender in steps 2.5 to 4
  parsed,          \* names of the files whose wrapper has returned
  order,           \* the names of `parsed` in the order of completion
  failedFiles,     \* names of the files whose result is a failure
  scratch,         \* output/<fileName>, by name
  merged,          \* allinone.txt
  unique,          \* allinone_unique.txt
  viaFallback,     \* allinone_unique.txt was written by the fallback
  sortRuns,        \* the sort commands step 4 has run, with their outcome
  archived,        \* the object rclone has copied
  notFoundLog,     \* the lines of notFoundFile
  probeOutput,     \* by name: the output of the probe of the file, if any
  appended,        \* by name: lines the file has appended to notFoundFile
  htmlMapInsertQueue, \* urlIdentifier: htmlMapInsertQueue
  flights,         \* the batches of the flushes that await sqlQuery
  html_map,        \* the rows of the table html_map
  flushLog,        \* what addToHtmlMap and the flushes have done (history)
  selected,        \* per pool connection: the database its last USE selected
  free,            \* the pool connections that are not in use
  call,            \* per call of sqlQuery: its database, position, connection
  executed,        \* the statements the pool has executed (history)
  md5Associations, \* urlIdentifier: md5Associations, by md5Item
  resolve          \* per call of identifyItem: its key, position and result

pipeVars == <<pc, runs, bucket, sortedFolders, filteredFolders, existingDates,
              idx, logs, archive, sameAccount, staging, runLog, genderResults,
              crashedAfterUpload>>
sshVars == <<sshAuthFailed, authLogged, probedAfterAuth, task>>
batchVars == <<files, bi, bpc, parse, completionTracker, batchResults,
               tempOutFile, waitEnded, totalProcessed, totalErrors>>
fetchVars == <<fileKeys, fi, fpc, pending, inflight, totalDownloaded,
               requested>>
recVars == <<logFiles, rpc, parsed, order, failedFiles, scratch, merged, unique,
             viaFallback, sortRuns, archived, notFoundLog, probeOutput,
             appended>>
mapVars == <<htmlMapInsertQueue, flights, html_map, flushLog>>
poolVars == <<selected, free, call, executed>>
cacheVars == <<md5Associations, resolve>>
moreVars == <<poolVars, cacheVars>>
notPipeVars == <<sshVars, batchVars, fetchVars, recVars, mapVars, moreVars>>
notSSHVars == <<pipeVars, batchVars, fetchVars, recVars, mapVars, moreVars>>
notBatchVars == <<pipeVars, sshVars, fetchVars, recVars, mapVars, moreVars>>
notRecVars == <<pipeVars, sshVars, batchVars, fetchVars, mapVars, moreVars>>
notPoolVars == <<pipeVars, sshVars, batchVars, fetchVars, recVars, mapVars,
                 cacheVars>>
notMapVars == <<pipeVars, sshVars, batchVars, fetchVars, recVars, moreVars>>
vars == <<pipeVars, sshVars, batchVars, fetchVars, recVars, mapVars, moreVars>>

(* ---------------------------------------------------------------------- *)
(* Paths.  A path is the result of split('/') on its string:               *)
(*   s3://<bucket>/<date>/      -> <<"s3:", "", bucket, date, "">>         *)
(*   s3://<bucket>/<date>.txt   -> <<"s3:", "", bucket, <<date, "txt">>>>  *)
(* a file name being the result of split('.') on it.                       *)
(* ---------------------------------------------------------------------- *)
FolderPath(b, d) == <<"s3:", "", b, d, "">>
ArchivePath(b, d) == <<"s3:", "", b, <<d, "txt">>>>

\* f.split('/').slice(-2, -1)[0]
FolderDate(f) == f[Len(f) - 1]

\* f.split('/').pop()?.split('.')[0], and the test /^\d{8}$/
RowDate(p) == p[Len(p)][1]
IsDateKey(x) == x \in Nat

\* the row written by cmdUpdate
StateRow(d) == [day |-> d, status |-> "downloaded",
                r2_path |-> ArchivePath(bucketNameClean, d)]

SeqToSet(s) == {s[i] : i \in DOMAIN s}
Perms(S) == {s \in [1..Cardinality(S) -> S] : SeqToSet(s) = S}

\* the comparator of the sort: dateA.localeCompare(dateB) is negative
DateBeforeReversed(a, b) == FolderDate(b) < FolderDate(a)
DateBefore(a, b) == FolderDate(a) < FolderDate(b)

\* Array.prototype.sort with that comparator
RECURSIVE InsertByDate(_, _)
InsertByDate(f, s) ==
  IF s = <<>> THEN <<f>>
  ELSE IF DateBefore(f, Head(s)) THEN <<f>> \o s
  ELSE <<Head(s)>> \o InsertByDate(f, Tail(s))

RECURSIVE SortByDate(_)
SortByDate(s) ==
  IF s = <<>> THEN <<>> ELSE InsertByDate(Head(s), SortByDate(Tail(s)))

\* sortedFolders.slice(0, -1)
FoldersToProcessAll(sorted) == sorted
FoldersToProcess(sorted) ==
  IF sorted = <<>> THEN <<>> ELSE SubSeq(sorted, 1, Len(sorted) - 1)

\* SELECT r2_path FROM logs WHERE status LIKE 'downloaded', then the date of
\* every r2_path
ExistingDatesWrongStatus(rows) ==
  {RowDate(rows[i].r2_path) : i \in {j \in DOMAIN rows : rows[j].status = "processed"}}
ExistingDates(rows) ==
  {d \in {RowDate(rows[i].r2_path) :
            i \in {j \in DOMAIN rows : rows[j].status = "downloaded"}} :
     IsDateKey(d)}

RECURSIVE SelectSeq2(_, _)
SelectSeq2(s, keep) ==
  IF s = <<>> THEN <<>>
  ELSE IF Head(s) \in keep THEN <<Head(s)>> \o SelectSeq2(Tail(s), keep)
  ELSE SelectSeq2(Tail(s), keep)

\* foldersToProcess.filter(f => !existingDates.has(folderDate))
FilteredFoldersKeepAll(toProcess, existing) == toProcess
FilteredFolders(toProcess, existing) ==
  SelectSeq2(toProcess, {f \in SeqToSet(toProcess) : FolderDate(f) \notin existing})

RowCount(d) == Cardinality({i \in DOMAIN logs : logs[i].day = d})

CurrentDate == FolderDate(filteredFolders[idx])

EmptyRunLog == [catalogBuilt |-> FALSE, catalogFailed |-> FALSE, hadRow |-> {},
                noScratch |-> {}, downloaded |-> {}, classified |-> {},
                uploaded |-> {}, verified |-> {}, inserted |-> {},
                cleaned |-> {}, wiped |-> {}, failed |-> 0, verifyMissing |-> 0,
                uploadFailed |-> 0]

Running == pc \in {"list", "query", "clean", "download", "classify", "merge",
                   "sort", "upload", "verify", "insert"}

Artifacts == {"downloaded", "scratch", "merged", "unique"}
\* staging.notfound: the date keys whose classification has recorded paths
\* in notFoundFile
NoStaging == [date |-> 0, files |-> {}, notfound |-> {}]

\* rmSync(logDir, {recursive: true}) removes notFoundFile when the directory
\* of notFoundFile is logDir
AfterRemoveLogDir(notfound) ==
  IF notFoundDir = CLOUDFLARE_LOG_DIR THEN {} ELSE notfound

Failure == <<[gender |-> genders[1], success |-> FALSE]>>
Success == <<[gender |-> genders[1], success |-> TRUE]>>

\* what the batches of step 2.5 report for the files of a partition
FileResults == {"no files", "all failed", "some failed", "all succeeded"}

\* a file classified to its end writes its scratch file output/<fileName>
WritesScratch(results) == results \in {"some failed", "all succeeded"}

\* createWriteStream(outputFilePath, {flags: 'w'}) creates allinone.txt
\* whether or not a scratch file is appended to it
MergeCreatesIfAny(anyScratch) == anyScratch
MergeCreates(anyScratch) == TRUE

\* where the partition loop goes after the body for filteredFolders[i]
LoopNext(i) == IF i < Len(filteredFolders) THEN "clean" ELSE "done"

\* the `if (fileExists)` of step 5
CommitNoCheck(fileExists) == TRUE
Commit(fileExists) == fileExists

\* rcloneCopy: execSync of `rclone copy`; its catch logs and returns 'failed'
RcloneResults == {"success", "failed"}

\* rcloneResult !== 'success': console.error, process.exit(1), before the
\* removeDirectory / removeFile calls
AfterUploadFailedCleans(artifacts) ==
  [pc |-> "exited", files |-> artifacts \ Artifacts]
AfterUploadFailed(artifacts) == [pc |-> "exited", files |-> artifacts]

\* the else branch of step 5: failedCount++, process.exit(1)
AfterVerifyMissingContinue(i) == [pc |-> LoopNext(i), idx |-> i + 1]
AfterVerifyMissing(i) == [pc |-> "exited", idx |-> i]

\* the batch loop of step 2.5 has not been entered
BatchIdle ==
  /\ files = 0
  /\ bi = 0
  /\ bpc = "idle"
  /\ parse = <<>>
  /\ completionTracker = <<>>
  /\ batchResults = <<>>
  /\ tempOutFile = <<>>
  /\ waitEnded = "none"
  /\ totalProcessed = 0
  /\ totalErrors = 0

\* downloadFolder is not running
FetchIdle ==
  /\ fileKeys = 0
  /\ fi = 0
  /\ fpc = "idle"
  /\ pending = 0
  /\ inflight = 0
  /\ totalDownloaded = 0
  /\ requested = 0

\* a text file that does not exist
NoFile == [head |-> <<>>, bulk |-> -1, tail |-> <<>>]

\* steps 2.5 to 4 are not running
RecIdle ==
  /\ logFiles = <<>>
  /\ rpc = "idle"
  /\ parsed = {}
  /\ order = <<>>
  /\ failedFiles = {}
  /\ scratch = <<>>
  /\ merged = NoFile
  /\ unique = NoFile
  /\ viaFallback = FALSE
  /\ sortRuns = <<>>
  /\ archived = NoFile
  /\ notFoundLog = <<>>
  /\ probeOutput = <<>>
  /\ appended = <<>>

\* a queue or a batch of html_map inserts: `fresh` entries of keys of their
\* own that no statement has written, `again` entries of keys of their own
\* that a statement has written, and the entries `items` of the keys the
\* model follows, in queue order
EmptyQueue == [fresh |-> 0, again |-> 0, items |-> <<>>]
EmptyFlushLog ==
  [adds |-> 0, failures |-> 0, largest |-> 0, rewrites |-> 0,
   added |-> EmptyQueue, done |-> EmptyQueue]

\* the pool has not been created and sqlQuery has not been called
PoolIdle ==
  /\ selected = <<>>
  /\ free = {}
  /\ call = <<>>
  /\ executed = {}

\* identifyItem has not been called and html_map has not been loaded
CacheIdle ==
  /\ md5Associations = <<>>
  /\ resolve = <<>>

MoreIdle == PoolIdle /\ CacheIdle

\* no entry is queued and no flush is running
MapIdle ==
  /\ MoreIdle
  /\ htmlMapInsertQueue = EmptyQueue
  /\ flights = <<>>
  /\ html_map = [bulk |-> 0, rows |-> <<>>]
  /\ flushLog = EmptyFlushLog

(* ---------------------------------------------------------------------- *)
(* Spec: the partition pipeline                                            *)
(* ---------------------------------------------------------------------- *)
Init ==
  /\ pc = "idle"
  /\ runs = 0
  /\ bucket = {}
  /\ sortedFolders = <<>>
  /\ filteredFolders = <<>>
  /\ existingDates = {}
  /\ idx = 0
  /\ logs = <<>>
  /\ archive = {}
  /\ sameAccount = TRUE
  /\ staging = NoStaging
  /\ runLog = EmptyRunLog
  /\ genderResults = <<>>
  /\ crashedAfterUpload = {}
  /\ sshAuthFailed = FALSE
  /\ authLogged = 0
  /\ probedAfterAuth = FALSE
  /\ task = <<>>
  /\ BatchIdle
  /\ FetchIdle
  /\ RecIdle
  /\ MapIdle

\* main: a new invocation of the process; loadHtmlMap runs before the gender
\* loop and is not inside a try block
StartRun ==
  /\ pc \in {"idle", "done", "exited", "crashed"}
  /\ runs < MaxRuns
  /\ runs' = runs + 1
  /\ \E loaded \in BOOLEAN : pc' = IF loaded THEN "list" ELSE "crashed"
  /\ sameAccount' \in BOOLEAN
  /\ sortedFolders' = <<>>
  /\ filteredFolders' = <<>>
  /\ existingDates' = {}
  /\ idx' = 0
  /\ runLog' = EmptyRunLog
  /\ genderResults' = <<>>
  /\ UNCHANGED <<bucket, logs, archive, staging, crashedAfterUpload, notPipeVars>>

\* an error thrown inside processGender reaches the catch of the gender loop
Throw ==
  /\ pc' = "done"
  /\ genderResults' = Failure

\* listAllFolders, shuffle, sort
ListFolders ==
  /\ pc = "list"
  /\ \/ /\ Throw
        /\ runLog' = [runLog EXCEPT !.catalogFailed = TRUE]
        /\ UNCHANGED <<bucket, sortedFolders>>
     \/ /\ \E S \in SUBSET Dates :
             /\ bucket \subseteq S
             /\ bucket' = S
             /\ \E folders \in Perms({FolderPath(bucketName, d) : d \in S}) :
                  \E shuffled \in Perms(SeqToSet(folders)) :
                     sortedFolders' = SortByDate(shuffled)
        /\ pc' = "query"
        /\ UNCHANGED <<genderResults, runLog>>
  /\ UNCHANGED <<runs, filteredFolders, existingDates, idx, logs, archive,
                 sameAccount, staging, crashedAfterUpload, notPipeVars>>

\* what the state query gives processGender when the statement fails:
\* sqlQuery logs the error and rethrows it
OnQueryErrorNoRows == "no rows"
OnQueryError == "throw"

\* the state query and the filter; an empty catalog returns from processGender
BuildCatalog ==
  /\ pc = "query"
  /\ \E queryOk \in BOOLEAN :
       IF ~queryOk /\ OnQueryError = "throw"
         THEN /\ Throw
              /\ runLog' = [runLog EXCEPT !.catalogFailed = TRUE]
              /\ UNCHANGED <<existingDates, filteredFolders, idx>>
         ELSE /\ existingDates' = ExistingDates(IF queryOk THEN logs ELSE <<>>)
              /\ filteredFolders' =
                   FilteredFolders(FoldersToProcess(sortedFolders), existingDates')
              /\ runLog' = [runLog EXCEPT
                              !.catalogBuilt = TRUE,
                              !.catalogFailed = ~queryOk,
                              !.hadRow = {logs[i].day : i \in DOMAIN logs}]
              /\ IF filteredFolders' = <<>>
                   THEN /\ pc' = "done"
                        /\ genderResults' = Success
                        /\ idx' = 0
                   ELSE /\ pc' = "clean"
                        /\ idx' = 1
                        /\ UNCHANGED genderResults
  /\ UNCHANGED <<runs, bucket, sortedFolders, logs, archive, sameAccount,
                 staging, crashedAfterUpload, notPipeVars>>

\* Step 1: removeDirectory(logDir), then the directories are recreated
Clean ==
  /\ pc = "clean"
  /\ staging' = [date |-> CurrentDate, files |-> {},
                 notfound |-> AfterRemoveLogDir(staging.notfound)]
  /\ runLog' = IF staging.files # {}
                 THEN [runLog EXCEPT !.wiped = @ \cup {staging.date}]
                 ELSE runLog
  /\ pc' = "download"
  /\ UNCHANGED <<runs, bucket, sortedFolders, filteredFolders, existingDates,
                 idx, logs, archive, sameAccount, genderResults,
                 crashedAfterUpload, notPipeVars>>

\* Step 2: downloadFolder; it rethrows the failure of any object
Download ==
  /\ pc = "download"
  /\ staging' = [staging EXCEPT !.files = @ \cup {"downloaded"}]
  /\ \E ok \in BOOLEAN :
       IF ok
         THEN /\ pc' = "classify"
              /\ runLog' = [runLog EXCEPT !.downloaded = @ \cup {CurrentDate}]
              /\ UNCHANGED genderResults
         ELSE /\ Throw
              /\ runLog' = [runLog EXCEPT !.downloaded = @ \cup {CurrentDate},
                                          !.failed = idx]
  /\ UNCHANGED <<runs, bucket, sortedFolders, filteredFolders, existingDates,
                 idx, logs, archive, sameAccount, crashedAfterUpload, notPipeVars>>

\* Step 2.5: the batches of files; a file failure is only counted.  The
\* existence batcher appends the paths it has found to notFoundFile.
Classify ==
  /\ pc = "classify"
  /\ \E found \in BOOLEAN :
       staging' = [staging EXCEPT
                     !.files = @ \cup {"scratch"},
                     !.notfound = IF found THEN @ \cup {CurrentDate} ELSE @]
  /\ \E results \in FileResults :
       runLog' = [runLog EXCEPT
                    !.classified = @ \cup {CurrentDate},
                    !.noScratch = IF WritesScratch(results) THEN @
                                  ELSE @ \cup {CurrentDate}]
  /\ pc' = "merge"
  /\ UNCHANGED <<runs, bucket, sortedFolders, filteredFolders, existingDates,
                 idx, logs, archive, sameAccount, genderResults,
                 crashedAfterUpload, notPipeVars>>

\* Step 3: allinone.txt
Merge ==
  /\ pc = "merge"
  /\ staging' =
       IF MergeCreates(CurrentDate \notin runLog.noScratch)
         THEN [staging EXCEPT !.files = @ \cup {"merged"}]
         ELSE staging
  /\ pc' = "sort"
  /\ UNCHANGED <<runs, bucket, sortedFolders, filteredFolders, existingDates,
                 idx, logs, archive, sameAccount, runLog, genderResults,
                 crashedAfterUpload, notPipeVars>>

\* Step 4: sort -u, else the streaming fallback and its sort, which rethrows;
\* both read allinone.txt
SortDedupe ==
  /\ pc = "sort"
  /\ staging' = [staging EXCEPT !.files = @ \cup {"unique"}]
  /\ \E primaryOk \in BOOLEAN, fallbackSortOk \in BOOLEAN :
       IF "merged" \in staging.files /\ (primaryOk \/ fallbackSortOk)
         THEN /\ pc' = "upload"
              /\ UNCHANGED <<genderResults, runLog>>
         ELSE /\ Throw
              /\ runLog' = [runLog EXCEPT !.failed = idx]
  /\ UNCHANGED <<runs, bucket, sortedFolders, filteredFolders, existingDates,
                 idx, logs, archive, sameAccount, crashedAfterUpload, notPipeVars>>

\* rcloneCopy, then removeDirectory / removeFile of the four artifacts
Upload ==
  /\ pc = "upload"
  /\ IF "unique" \in staging.files
       THEN \E rcloneResult \in RcloneResults :
              IF rcloneResult = "success"
                THEN /\ archive' = archive \cup {CurrentDate}
                     /\ staging' = [staging EXCEPT !.files = @ \ Artifacts]
                     /\ runLog' = [runLog EXCEPT
                                     !.uploaded = @ \cup {CurrentDate},
                                     !.cleaned = @ \cup {CurrentDate}]
                     /\ pc' = "verify"
                ELSE LET next == AfterUploadFailed(staging.files) IN
                       /\ pc' = next.pc
                       /\ staging' = [staging EXCEPT !.files = next.files]
                       /\ runLog' = [runLog EXCEPT
                                       !.uploadFailed = CurrentDate]
                       /\ UNCHANGED archive
       ELSE /\ pc' = "exited"
            /\ UNCHANGED <<archive, staging, runLog>>
  /\ UNCHANGED <<runs, bucket, sortedFolders, filteredFolders, existingDates,
                 idx, logs, sameAccount, genderResults, crashedAfterUpload,
                 notPipeVars>>

\* flushAllHtmlMapBatches (which swallows its errors), then doesS3Exist:
\* HeadObject through the R2 client; 404 is false, another error is rethrown
Verify ==
  /\ pc = "verify"
  /\ \/ /\ Throw
        /\ UNCHANGED <<runLog, idx>>
     \/ LET fileExists == sameAccount /\ CurrentDate \in archive
            next == IF Commit(fileExists)
                      THEN [pc |-> "insert", idx |-> idx]
                      ELSE AfterVerifyMissing(idx)
        IN
          /\ pc' = next.pc
          /\ idx' = next.idx
          /\ runLog' = IF fileExists
                         THEN [runLog EXCEPT !.verified = @ \cup {CurrentDate}]
                         ELSE [runLog EXCEPT !.verifyMissing = CurrentDate]
          /\ UNCHANGED genderResults
  /\ UNCHANGED <<runs, bucket, sortedFolders, filteredFolders, existingDates,
                 logs, archive, sameAccount, staging, crashedAfterUpload,
                 notPipeVars>>

\* Step 5: sqlQuery(cmdUpdate), removeDuplicatesFile(notFoundFile), and the
\* next iteration of the partition loop
Insert ==
  /\ pc = "insert"
  /\ \/ /\ Throw
        /\ UNCHANGED <<logs, runLog, idx>>
     \/ /\ logs' = Append(logs, StateRow(CurrentDate))
        /\ runLog' = [runLog EXCEPT !.inserted = @ \cup {CurrentDate}]
        /\ pc' = LoopNext(idx)
        /\ idx' = idx + 1
        /\ genderResults' = IF idx < Len(filteredFolders) THEN genderResults
                            ELSE Success
  /\ UNCHANGED <<runs, bucket, sortedFolders, filteredFolders, existingDates,
                 archive, sameAccount, staging, crashedAfterUpload, notPipeVars>>

\* process termination at any point of a run
Crash ==
  /\ Running
  /\ pc' = "crashed"
  /\ crashedAfterUpload' =
       IF pc \in {"verify", "insert"}
         THEN crashedAfterUpload \cup {CurrentDate}
         ELSE crashedAfterUpload
  /\ UNCHANGED <<runs, bucket, sortedFolders, filteredFolders, existingDates,
                 idx, logs, archive, sameAccount, staging, runLog,
                 genderResults, notPipeVars>>

Next ==
  \/ StartRun
  \/ ListFolders
  \/ BuildCatalog
  \/ Clean
  \/ Download
  \/ Classify
  \/ Merge
  \/ SortDedupe
  \/ Upload
  \/ Verify
  \/ Insert
  \/ Crash

Spec == Init /\ [][Next]_vars

(* ---------------------------------------------------------------------- *)
(* SpecSSH: the files of one batch, classified by concurrent               *)
(* parseLargeJsonFile tasks that share sshAuthFailed.  A step is the code  *)
(* a task runs between two awaits; bashCommand is execSync and does not    *)
(* yield.                                                                  *)
(* ---------------------------------------------------------------------- *)
Tasks == 1..NumTasks

\* what a line of a log file turns out to be: identifyItem returns an
\* association, 'invalid' or 'unidentified', or JSON.parse throws
Kinds == {"identified", "invalid", "unidentified", "malformed"}

\* short files: up to MaxLines lines of one kind
ShortFiles == {[i \in 1..n |-> k] : n \in 0..MaxLines, k \in Kinds}
\* a file that fills one batch of unidentified candidates and goes on
LongFile == [i \in 1..(BATCH_SIZE + 1) |->
               IF i <= BATCH_SIZE THEN "unidentified" ELSE "identified"]
FileChoices == ShortFiles \cup {LongFile}

\* parseLargeJsonFile at its start
NewTask(f) ==
  [pc |-> "read", file |-> f, pos |-> 1, unidentifiedFiles |-> <<>>,
   entries |-> <<>>, attemptsFileCheck |-> 0, unexpectedError |-> 0,
   ret |-> "read", batchProbes |-> 0, waited |-> 0, gaveUp |-> FALSE,
   hitAuth |-> FALSE, probedAfterHit |-> FALSE, handed |-> <<>>]

InitSSH ==
  /\ pc = "classify"
  /\ runs = 1
  /\ bucket = {}
  /\ sortedFolders = <<>>
  /\ filteredFolders = <<>>
  /\ existingDates = {}
  /\ idx = 0
  /\ logs = <<>>
  /\ archive = {}
  /\ sameAccount = TRUE
  /\ staging = NoStaging
  /\ runLog = EmptyRunLog
  /\ genderResults = <<>>
  /\ crashedAfterUpload = {}
  /\ sshAuthFailed = FALSE
  /\ authLogged = 0
  /\ probedAfterAuth = FALSE
  /\ task \in [Tasks -> {NewTask(f) : f \in FileChoices}]
  /\ BatchIdle
  /\ FetchIdle
  /\ RecIdle
  /\ MapIdle

\* `if (!sshAuthFailed)` around the assignment and the warning
LogAuthAlways(flag) == TRUE
LogAuth(flag) == ~flag

\* `if (unexpectedError >= 10)` after the backoff
GiveUp(unexpectedError) == unexpectedError >= MaxAttempts

\* what the abandoned batch does to its caller: break, and the function
\* returns
AbandonThrows == "failed"
Abandon == "returned"

\* processBatchSSHChecks has returned to its caller; its locals are gone
Returned(tk) == [tk EXCEPT !.pc = "returned",
                           !.attemptsFileCheck = 0,
                           !.unexpectedError = 0,
                           !.batchProbes = 0,
                           !.waited = 0]

\* the catch block goes on to the backoff unless the error is 'Permission
\* denied (publickey)', for which it breaks
BacksOffAlways(outcome) == outcome \in {"transient", "auth"}
BacksOff(outcome) == outcome = "transient"

\* `await new Promise(resolve => setTimeout(resolve, 10000))` after the n-th
\* failed attempt, before `if (unexpectedError >= 10)`
BackoffUnlessLast(n) == IF n >= MaxAttempts THEN 0 ELSE BackoffMs
Backoff(n) == BackoffMs

\* one pass of the body of `while (true)`: bashCommand, then the parse of its
\* output or the catch block, up to the break or the backoff timer
Attempt(t, tk) ==
  \E outcome \in {"success", "auth", "transient"} :
    LET probed == [tk EXCEPT !.probedAfterHit = @ \/ tk.hitAuth,
                             !.hitAuth = @ \/ (outcome = "auth")]
    IN
    /\ probedAfterAuth' = (probedAfterAuth \/ sshAuthFailed)
    /\ IF outcome = "auth" /\ LogAuth(sshAuthFailed)
         THEN /\ sshAuthFailed' = TRUE
              /\ authLogged' = authLogged + 1
         ELSE UNCHANGED <<sshAuthFailed, authLogged>>
    /\ task' =
         [task EXCEPT ![t] =
            IF BacksOff(outcome)
              THEN [probed EXCEPT
                      !.pc = "sleep",
                      !.batchProbes = @ + 1,
                      !.unexpectedError = @ + 1,
                      !.waited = @ + Backoff(tk.unexpectedError + 1)]
              ELSE Returned(probed)]

\* `unidentifiedFiles.length = 0` after the call has returned
AfterHandOverKeep(batch) == batch
AfterHandOver(batch) == <<>>

\* the call processBatchSSHChecks(unidentifiedFiles, notFoundFile), from its
\* entry to its first await or its return; handed lists the batches the
\* function has been called with
CallBatch(t, caller) ==
  LET tk == [caller EXCEPT !.handed = Append(@, caller.unidentifiedFiles)] IN
  IF Len(tk.unidentifiedFiles) = 0 \/ sshAuthFailed
    THEN /\ task' = [task EXCEPT ![t] = Returned(tk)]
         /\ UNCHANGED <<sshAuthFailed, authLogged, probedAfterAuth>>
    ELSE Attempt(t, tk)

\* parseLargeJsonFile: one line of the file
ReadLine(t) ==
  LET tk == task[t] IN
  /\ tk.pc = "read"
  /\ tk.pos <= Len(tk.file)
  /\ LET kind == tk.file[tk.pos]
         read == [tk EXCEPT !.pos = @ + 1]
     IN
       CASE kind = "unidentified" ->
              LET queued == [read EXCEPT
                               !.unidentifiedFiles = Append(@, tk.pos)]
              IN IF Len(queued.unidentifiedFiles) >= BATCH_SIZE
                   THEN CallBatch(t, [queued EXCEPT !.ret = "read"])
                   ELSE /\ task' = [task EXCEPT ![t] = queued]
                        /\ UNCHANGED <<sshAuthFailed, authLogged,
                                       probedAfterAuth>>
         [] kind = "identified" ->
              /\ task' = [task EXCEPT ![t] =
                            [read EXCEPT !.entries = Append(@, tk.pos)]]
              /\ UNCHANGED <<sshAuthFailed, authLogged, probedAfterAuth>>
         [] OTHER ->
              /\ task' = [task EXCEPT ![t] = read]
              /\ UNCHANGED <<sshAuthFailed, authLogged, probedAfterAuth>>
  /\ UNCHANGED notSSHVars

\* parseLargeJsonFile: the file has ended; the remaining batch, then return
EndOfFile(t) ==
  LET tk == task[t] IN
  /\ tk.pc = "read"
  /\ tk.pos > Len(tk.file)
  /\ IF Len(tk.unidentifiedFiles) > 0
       THEN CallBatch(t, [tk EXCEPT !.ret = "done"])
       ELSE /\ task' = [task EXCEPT ![t] = [tk EXCEPT !.pc = "done"]]
            /\ UNCHANGED <<sshAuthFailed, authLogged, probedAfterAuth>>
  /\ UNCHANGED notSSHVars

\* processBatchSSHChecks: the backoff timer has fired
WakeUp(t) ==
  LET tk == task[t] IN
  /\ tk.pc = "sleep"
  /\ IF GiveUp(tk.unexpectedError)
       THEN /\ task' = [task EXCEPT ![t] =
                          [Returned(tk) EXCEPT !.pc = Abandon,
                                               !.gaveUp = TRUE]]
            /\ UNCHANGED <<sshAuthFailed, authLogged, probedAfterAuth>>
       ELSE LET again == [tk EXCEPT !.attemptsFileCheck = @ + 1] IN
            IF again.attemptsFileCheck >= MaxAttempts
              THEN /\ task' = [task EXCEPT ![t] =
                                 [Returned(again) EXCEPT !.pc = Abandon,
                                                         !.gaveUp = TRUE]]
                   /\ UNCHANGED <<sshAuthFailed, authLogged, probedAfterAuth>>
              ELSE Attempt(t, again)
  /\ UNCHANGED notSSHVars

\* parseLargeJsonFile after `await processBatchSSHChecks(...)`
Return(t) ==
  LET tk == task[t] IN
  /\ tk.pc = "returned"
  /\ task' = [task EXCEPT ![t] =
                IF tk.ret = "read"
                  THEN [tk EXCEPT !.pc = "read",
                                  !.unidentifiedFiles = AfterHandOver(@)]
                  ELSE [tk EXCEPT !.pc = "done"]]
  /\ UNCHANGED <<sshAuthFailed, authLogged, probedAfterAuth>>
  /\ UNCHANGED notSSHVars

NextSSH ==
  \E t \in Tasks :
    \/ ReadLine(t)
    \/ EndOfFile(t)
    \/ WakeUp(t)
    \/ Return(t)

SpecSSH == InitSSH /\ [][NextSSH]_vars

\* the steps of task t
TaskStep(t) == ReadLine(t) \/ EndOfFile(t) \/ WakeUp(t) \/ Return(t)

\* parseLargeJsonFile of the long file when it has queued all candidates of
\* its batch but the last: no task has called processBatchSSHChecks yet
AtLastCandidate ==
  [NewTask(LongFile) EXCEPT
     !.pos = BATCH_SIZE,
     !.unidentifiedFiles = [i \in 1..(BATCH_SIZE - 1) |-> i]]

InitProbe ==
  /\ pc = "classify"
  /\ runs = 1
  /\ bucket = {}
  /\ sortedFolders = <<>>
  /\ filteredFolders = <<>>
  /\ existingDates = {}
  /\ idx = 0
  /\ logs = <<>>
  /\ archive = {}
  /\ sameAccount = TRUE
  /\ staging = NoStaging
  /\ runLog = EmptyRunLog
  /\ genderResults = <<>>
  /\ crashedAfterUpload = {}
  /\ sshAuthFailed = FALSE
  /\ authLogged = 0
  /\ probedAfterAuth = FALSE
  /\ task = [t \in Tasks |-> AtLastCandidate]
  /\ BatchIdle
  /\ FetchIdle
  /\ RecIdle
  /\ MapIdle

\* SpecProbe: the calls of processBatchSSHChecks for one full batch per task.
\* The event loop runs every continuation that is ready, and the backoff
\* timer fires.
SpecProbe ==
  /\ InitProbe
  /\ [][NextSSH]_vars
  /\ \A t \in Tasks : WF_vars(TaskStep(t))

(* ---------------------------------------------------------------------- *)
(* SpecBatch: step 2.5 of one partition, the batch loop over `files`.      *)
(* A step is a timer callback or the settling of a parseLargeJsonFile      *)
(* promise, together with every promise reaction it triggers.  Timers are  *)
(* events of their own: Node.js gives no guarantee on when, or in which    *)
(* order, their callbacks run.  Promise.race does not cancel the loser:    *)
(* parseLargeJsonFile goes on after its file has timed out.                *)
(* ---------------------------------------------------------------------- *)
Files == 1..files

\* the entries of batchResults and completionTracker
NoResult == [success |-> FALSE, entryCount |-> -1, error |-> "pending"]
Completed(n) == [success |-> TRUE, entryCount |-> n, error |-> "none"]
Failed(msg) == [success |-> FALSE, entryCount |-> 0, error |-> msg]

\* files.slice(i, i + FILE_BATCH_SIZE)
Batch(i) == {f \in Files : i < f /\ f <= i + FILE_BATCH_SIZE}

\* the files whose classification takes as long as it likes, throws or never
\* ends; the others are classified first, in directory order, before any
\* timer has run out
Slow(f) == f <= MaxSlowFiles
PromptDone == \A g \in Files : ~Slow(g) => parse[g] # "running"

\* the number of entries parseLargeJsonFile returns for file f: none for the
\* first file
Entries(f) == IF Slow(f) THEN f - 1 ELSE 1

\* one batch, a full batch, or a full batch and one more file
FileCounts == (0..MaxSlowFiles) \cup {FILE_BATCH_SIZE, FILE_BATCH_SIZE + 1}

InitBatch ==
  /\ pc = "classify"
  /\ runs = 1
  /\ bucket = {}
  /\ sortedFolders = <<>>
  /\ filteredFolders = <<>>
  /\ existingDates = {}
  /\ idx = 0
  /\ logs = <<>>
  /\ archive = {}
  /\ sameAccount = TRUE
  /\ staging = NoStaging
  /\ runLog = EmptyRunLog
  /\ genderResults = <<>>
  /\ crashedAfterUpload = {}
  /\ sshAuthFailed = FALSE
  /\ authLogged = 0
  /\ probedAfterAuth = FALSE
  /\ task = <<>>
  /\ files \in FileCounts
  /\ bi = 0
  /\ bpc = "start"
  /\ parse = [f \in Files |-> "new"]
  /\ completionTracker = [f \in Files |-> NoResult]
  /\ batchResults = [f \in Files |-> NoResult]
  /\ tempOutFile = [f \in Files |-> -1]
  /\ waitEnded = "none"
  /\ totalProcessed = 0
  /\ totalErrors = 0
  /\ FetchIdle
  /\ RecIdle
  /\ MapIdle

\* batchResults = batch.map(f => completionTracker.get(f) || {...})
BuildResultsDropPending(tracker, i) ==
  [f \in Files |-> IF f \in Batch(i) THEN tracker[f] ELSE batchResults[f]]
BuildResults(tracker, i) ==
  [f \in Files |->
     IF f \in Batch(i)
       THEN IF tracker[f] # NoResult
              THEN tracker[f]
              ELSE Failed("File did not complete within batch timeout")
       ELSE batchResults[f]]

\* Promise.race([Promise.all(trackedPromises), batchTimeoutPromise])
WaitOverAllOnly(allTracked, timerFired) == allTracked
WaitOver(allTracked, timerFired) == allTracked \/ timerFired

\* the catch block of the file wrapper, entered by the file timer
OnFileTimeoutFailsBatch(tracker, f) ==
  [g \in Files |->
     IF g \in Batch(bi) /\ tracker[g] = NoResult
       THEN Failed("Timeout: File processing exceeded 30 minutes")
       ELSE tracker[g]]
OnFileTimeout(tracker, f) ==
  [tracker EXCEPT ![f] = Failed("Timeout: File processing exceeded 30 minutes")]

\* batch.map(async fileName => ...) up to the first await of every wrapper,
\* then the code up to `await Promise.race`
StartBatch(i) ==
  /\ bi' = i
  /\ parse' = [f \in Files |-> IF f \in Batch(i) THEN "running" ELSE parse[f]]
  /\ bpc' = "wait"
  /\ waitEnded' = "none"

\* batchResults.filter(r => r.success).length and
\* batchResults.filter(r => !r.success).length
BatchSuccesses(results, i) ==
  Cardinality({f \in Batch(i) : results[f].success})
BatchErrors(results, i) ==
  Cardinality({f \in Batch(i) : ~results[f].success})

\* totalProcessed += batchSuccesses; totalErrors += batchErrors
AddToTotalOverwrite(total, n) == n
AddToTotal(total, n) == total + n

\* the continuation of `await Promise.race` once the tracker is `tracker`, up
\* to `await flushAllHtmlMapBatches()`
Continue(tracker, timerFired) ==
  IF bpc = "wait" /\ WaitOver(\A f \in Batch(bi) : tracker[f] # NoResult,
                              timerFired)
    THEN /\ batchResults' = BuildResults(tracker, bi)
         /\ totalProcessed' =
              AddToTotal(totalProcessed, BatchSuccesses(batchResults', bi))
         /\ totalErrors' =
              AddToTotal(totalErrors, BatchErrors(batchResults', bi))
         /\ bpc' = "flush"
         /\ waitEnded' = IF timerFired THEN "timeout" ELSE "all"
    ELSE UNCHANGED <<batchResults, bpc, waitEnded, totalProcessed, totalErrors>>

\* the for loop is entered
BeginBatches ==
  /\ bpc = "start"
  /\ IF 0 < files
       THEN StartBatch(0)
       ELSE /\ bpc' = "merge"
            /\ UNCHANGED <<bi, parse, waitEnded>>
  /\ UNCHANGED <<files, completionTracker, batchResults, tempOutFile,
                 totalProcessed, totalErrors>>
  /\ UNCHANGED notBatchVars

\* parseLargeJsonFile resolves; a wrapper still in its race writes the
\* scratch file and returns its result
ParseReturns(f) ==
  /\ parse[f] = "running"
  /\ IF Slow(f) THEN PromptDone
       ELSE \A g \in Files : (g < f /\ ~Slow(g)) => parse[g] # "running"
  /\ parse' = [parse EXCEPT ![f] = "returned"]
  /\ IF completionTracker[f] = NoResult
       THEN /\ tempOutFile' = [tempOutFile EXCEPT ![f] = Entries(f)]
            /\ completionTracker' =
                 [completionTracker EXCEPT ![f] = Completed(Entries(f))]
       ELSE UNCHANGED <<tempOutFile, completionTracker>>
  /\ Continue(completionTracker', FALSE)
  /\ UNCHANGED <<files, bi>>
  /\ UNCHANGED notBatchVars

\* parseLargeJsonFile rejects (the read stream fails)
ParseThrows(f) ==
  /\ parse[f] = "running"
  /\ Slow(f)
  /\ PromptDone
  /\ parse' = [parse EXCEPT ![f] = "threw"]
  /\ completionTracker' =
       IF completionTracker[f] = NoResult
         THEN [completionTracker EXCEPT ![f] = Failed("thrown")]
         ELSE completionTracker
  /\ Continue(completionTracker', FALSE)
  /\ UNCHANGED <<files, bi, tempOutFile>>
  /\ UNCHANGED notBatchVars

\* the 30 minute timer of the wrapper of f fires while the wrapper is in its
\* race
FileTimeout(f) ==
  /\ parse[f] = "running"
  /\ Slow(f)
  /\ PromptDone
  /\ completionTracker[f] = NoResult
  /\ completionTracker' = OnFileTimeout(completionTracker, f)
  /\ Continue(completionTracker', FALSE)
  /\ UNCHANGED <<files, bi, parse, tempOutFile>>
  /\ UNCHANGED notBatchVars

\* the 30 minute timer of the batch fires while the loop is in its race
BatchTimeout ==
  /\ bpc = "wait"
  /\ PromptDone
  /\ Continue(completionTracker, TRUE)
  /\ bpc' # "wait"
  /\ UNCHANGED <<files, bi, parse, completionTracker, tempOutFile>>
  /\ UNCHANGED notBatchVars

\* flushAllHtmlMapBatches has settled (it swallows its errors): the next
\* batch, or the end of the loop
Flush ==
  /\ bpc = "flush"
  /\ IF bi + FILE_BATCH_SIZE < files
       THEN StartBatch(bi + FILE_BATCH_SIZE)
       ELSE /\ bpc' = "merge"
            /\ UNCHANGED <<bi, parse, waitEnded>>
  /\ UNCHANGED <<files, completionTracker, batchResults, tempOutFile,
                 totalProcessed, totalErrors>>
  /\ UNCHANGED notBatchVars

NextBatch ==
  \/ BeginBatches
  \/ \E f \in Files : ParseReturns(f)
  \/ \E f \in Files : ParseThrows(f)
  \/ \E f \in Files : FileTimeout(f)
  \/ BatchTimeout
  \/ Flush

SpecBatch == InitBatch /\ [][NextBatch]_vars

\* a file that is not slow is classified to its end
PromptReturns == \E f \in Files : ~Slow(f) /\ ParseReturns(f)

\* timers fire and the flush settles; nothing makes the classification of a
\* slow file end
SpecBatchFair ==
  /\ SpecBatch
  /\ WF_vars(BeginBatches)
  /\ WF_vars(PromptReturns)
  /\ WF_vars(BatchTimeout)
  /\ WF_vars(Flush)

(* ---------------------------------------------------------------------- *)
(* SpecFetch: step 2 of one partition, downloadFolder, object by object,   *)
(* followed by the rest of the pipeline for that partition.  The objects   *)
(* are counted, not named: a download either completes or fails.           *)
(* ---------------------------------------------------------------------- *)
KeyCounts == {g * DOWNLOAD_BATCH_SIZE + k : g \in 0..2, k \in 0..MaxKeys}

InitFetch ==
  /\ pc = "download"
  /\ runs = 1
  /\ bucket = {1, 2}
  /\ sortedFolders = <<FolderPath(bucketName, 1), FolderPath(bucketName, 2)>>
  /\ filteredFolders = <<FolderPath(bucketName, 1)>>
  /\ existingDates = {}
  /\ idx = 1
  /\ logs = <<>>
  /\ archive = {}
  /\ sameAccount \in BOOLEAN
  /\ staging = [date |-> 1, files |-> {}, notfound |-> {}]
  /\ runLog = [EmptyRunLog EXCEPT !.catalogBuilt = TRUE]
  /\ genderResults = <<>>
  /\ crashedAfterUpload = {}
  /\ sshAuthFailed = FALSE
  /\ authLogged = 0
  /\ probedAfterAuth = FALSE
  /\ task = <<>>
  /\ BatchIdle
  /\ fileKeys = 0
  /\ fi = 0
  /\ fpc = "list"
  /\ pending = 0
  /\ inflight = 0
  /\ totalDownloaded = 0
  /\ requested = 0
  /\ RecIdle
  /\ MapIdle

\* fileKeys.slice(i, i + BATCH_SIZE).length
GroupSizeAll(i, n) == n - i
GroupSize(i, n) ==
  IF n - i < DOWNLOAD_BATCH_SIZE THEN n - i ELSE DOWNLOAD_BATCH_SIZE

\* the catch block of the download of one object: `throw error`
OnDownloadErrorSwallow == "resolve"
OnDownloadError == "reject"

\* batch.map(async key => ...) up to the await of every download, then
\* `await Promise.all`
StartGroup(i, n, stillRunning) ==
  /\ fi' = i
  /\ pending' = GroupSize(i, n)
  /\ inflight' = stillRunning + GroupSize(i, n)
  /\ requested' = requested + GroupSize(i, n)
  /\ fpc' = "group"

\* downloadFolder returns true: step 2.5 follows
FetchReturns ==
  /\ fpc' = "returned"
  /\ pc' = "classify"
  /\ staging' = [staging EXCEPT !.files = @ \cup {"downloaded"}]
  /\ runLog' = [runLog EXCEPT !.downloaded = @ \cup {CurrentDate}]
  /\ UNCHANGED genderResults

\* downloadFolder rethrows; nothing in processGender catches it
FetchRejects ==
  /\ fpc' = "rejected"
  /\ Throw
  /\ staging' = [staging EXCEPT !.files = @ \cup {"downloaded"}]
  /\ runLog' = [runLog EXCEPT !.downloaded = @ \cup {CurrentDate},
                              !.failed = idx]

\* the listing of the objects of the partition
FetchList ==
  /\ fpc = "list"
  /\ \/ /\ FetchRejects
        /\ UNCHANGED <<fileKeys, fi, pending, inflight, requested>>
     \/ \E n \in KeyCounts :
          /\ fileKeys' = n
          /\ IF 0 < n
               THEN /\ StartGroup(0, n, 0)
                    /\ UNCHANGED <<pc, staging, runLog, genderResults>>
               ELSE /\ FetchReturns
                    /\ UNCHANGED <<fi, pending, inflight, requested>>
  /\ UNCHANGED totalDownloaded
  /\ UNCHANGED <<runs, bucket, sortedFolders, filteredFolders, existingDates,
                 idx, logs, archive, sameAccount, crashedAfterUpload>>
  /\ UNCHANGED <<sshVars, batchVars, recVars, mapVars, moreVars>>

\* the loop after `await Promise.all` of a group: the next group or return
AfterGroup ==
  IF fi + DOWNLOAD_BATCH_SIZE < fileKeys
    THEN /\ StartGroup(fi + DOWNLOAD_BATCH_SIZE, fileKeys, inflight - 1)
         /\ UNCHANGED <<pc, staging, runLog, genderResults>>
    ELSE /\ FetchReturns
         /\ inflight' = inflight - 1
         /\ UNCHANGED <<fi, pending, requested>>

\* downloadSingleFile of one object resolves
DownloadDone ==
  /\ inflight > 0
  /\ fpc \in {"group", "rejected"}
  /\ totalDownloaded' = totalDownloaded + 1
  /\ IF fpc = "group" /\ pending = 1
       THEN AfterGroup
       ELSE /\ inflight' = inflight - 1
            /\ pending' = IF fpc = "group" THEN pending - 1 ELSE pending
            /\ UNCHANGED <<fi, fpc, requested, pc, staging, runLog,
                           genderResults>>
  /\ UNCHANGED fileKeys
  /\ UNCHANGED <<runs, bucket, sortedFolders, filteredFolders, existingDates,
                 idx, logs, archive, sameAccount, crashedAfterUpload>>
  /\ UNCHANGED <<sshVars, batchVars, recVars, mapVars, moreVars>>

\* downloadSingleFile of one object rejects
DownloadFails ==
  /\ inflight > 0
  /\ fpc \in {"group", "rejected"}
  /\ IF fpc = "group" /\ OnDownloadError = "reject"
       THEN /\ FetchRejects
            /\ inflight' = inflight - 1
            /\ UNCHANGED <<fi, pending, requested>>
       ELSE IF fpc = "group" /\ pending = 1
         THEN AfterGroup
         ELSE /\ inflight' = inflight - 1
              /\ pending' = IF fpc = "group" THEN pending - 1 ELSE pending
              /\ UNCHANGED <<fi, fpc, requested, pc, staging, runLog,
                             genderResults>>
  /\ UNCHANGED <<fileKeys, totalDownloaded>>
  /\ UNCHANGED <<runs, bucket, sortedFolders, filteredFolders, existingDates,
                 idx, logs, archive, sameAccount, crashedAfterUpload>>
  /\ UNCHANGED <<sshVars, batchVars, recVars, mapVars, moreVars>>

NextFetch ==
  \/ FetchList
  \/ DownloadDone
  \/ DownloadFails
  \/ Classify
  \/ Merge
  \/ SortDedupe
  \/ Upload
  \/ Verify
  \/ Insert

SpecFetch == InitFetch /\ [][NextFetch]_vars

(* ---------------------------------------------------------------------- *)
(* SpecRecords: the records of one partition from the log files to the     *)
(* archive: parseLargeJsonFile, the scratch files, the merge, the two      *)
(* dedupe strategies and the upload.                                       *)
(*                                                                         *)
(* A text file is [head, bulk, tail]: the lines of head, then bulk further *)
(* lines that are pairwise distinct, differ from every line of head and    *)
(* tail and sort after them, then the lines of tail.  The bulk lines stand *)
(* for the lines of a log file with that many identified records of        *)
(* distinct clients; they are counted, not listed.                         *)
(* ---------------------------------------------------------------------- *)
FileNames == <<"f1", "f2", "f3">>     \* readdirSync(...).sort()

\* a record of a log file: json is false for a line JSON.parse rejects, ip is
\* 0 for a record without ClientIP, url stands for host and path
Rec(j, u, c) == [json |-> j, url |-> u, ip |-> c]
Records == {Rec(TRUE, 1, 1), Rec(TRUE, 2, 1), Rec(TRUE, 1, 2), Rec(TRUE, 3, 1),
            Rec(TRUE, 4, 1), Rec(TRUE, 1, 0), Rec(FALSE, 0, 0)}
ClientIPs == {1, 2}

\* identifyItem: urls 1 and 2 are pages of the same entity, url 3 is a static
\* page, url 4 is a page no table knows
identifyItem(url) ==
  CASE url \in {1, 2} -> [kind |-> "association", db |-> 1, id |-> 1]
    [] url = 3 -> [kind |-> "invalid", db |-> 0, id |-> 0]
    [] OTHER -> [kind |-> "unidentified", db |-> 0, id |-> 0]

\* crypto.createHash('md5').update(String(clientIP)).digest('hex'): the
\* digests 11 and 12 of the clients 2 and 1
HashIPRaw(clientIP) == clientIP
HashIP(clientIP) == 13 - clientIP

\* dir + clientRequestPath
ServerPath(url) == <<"dir", url>>

\* JSON.stringify(entry): the keys in insertion order, each with its value
Stringify(e) == <<"db", e.db, "id", e.id, "ip", e.ip, "date", e.date>>

\* the (entityRef, anonymizedClientId, dateKey) a line of the archive states
TupleOf(line) == <<<<line[2], line[4]>>, line[6], line[8]>>

SeqsUpTo(S, n) == UNION {[1..k -> S] : k \in 0..n}
BulkSizes == {0, MAX_SET_SIZE - 1, MAX_SET_SIZE}
\* the last file: empty, one identified record, or one candidate
LastFiles == {<<>>, <<Rec(TRUE, 1, 1)>>, <<Rec(TRUE, 4, 1)>>}

\* the catch block around the body of the loop: the error is logged and the
\* loop goes on to the next line
OnMalformedThrow(acc) == [acc EXCEPT !.threw = TRUE]
OnMalformed(acc) == acc

\* the body of `for await (const line of fileIterator)` for one line; nothing
\* more is read once an error has left the loop
ParseLine(acc, r, date) ==
  IF acc.threw THEN acc
  ELSE IF ~r.json THEN OnMalformed(acc)
  ELSE IF r.ip = 0 THEN acc
  ELSE LET resultIdentify == identifyItem(r.url) IN
       IF resultIdentify.kind = "unidentified"
         THEN [acc EXCEPT !.unidentifiedFiles =
                 Append(@, [url |-> r.url, serverPath |-> ServerPath(r.url)])]
       ELSE IF resultIdentify.kind # "invalid"
         THEN [acc EXCEPT !.entries =
                 Append(@, [db |-> resultIdentify.db, id |-> resultIdentify.id,
                            ip |-> HashIP(r.ip), date |-> date])]
       ELSE acc

RECURSIVE ParseLines(_, _, _)
ParseLines(acc, recs, date) ==
  IF recs = <<>> THEN acc
  ELSE ParseLines(ParseLine(acc, Head(recs), date), Tail(recs), date)

\* what the probe command can print for the candidates: nothing, a line that
\* is no marker, or one marker per candidate
Outputs(cands) ==
  {<<>>, <<<<"Warning:", <<>>>>>>}
    \cup {[i \in DOMAIN cands |-> <<m, cands[i].serverPath>>] :
            m \in {"EXISTS:", "NOTEXISTS:"}}

\* the loop over outputCommand.split('\n'): results.set(path, true / false)
RECURSIVE ParseOutput(_, _)
ParseOutput(results, lines) ==
  IF lines = <<>> THEN results
  ELSE LET line == Head(lines) IN
       ParseOutput(
         CASE line[1] = "EXISTS:" ->
                [yes |-> results.yes \cup {line[2]},
                 no |-> results.no \ {line[2]}]
           [] line[1] = "NOTEXISTS:" ->
                [yes |-> results.yes \ {line[2]},
                 no |-> results.no \cup {line[2]}]
           [] OTHER -> results,
         Tail(lines))

\* `if (exists === true)` for results.get(file.serverPath)
ShouldLogUnlessMissing(results, serverPath) == serverPath \notin results.no
ShouldLog(results, serverPath) == serverPath \in results.yes

\* the loop over files that appends host + path to notFoundFile
RECURSIVE NotFoundLines(_, _)
NotFoundLines(results, cands) ==
  IF cands = <<>> THEN <<>>
  ELSE (IF ShouldLog(results, Head(cands).serverPath)
          THEN <<Head(cands).url>> ELSE <<>>)
         \o NotFoundLines(results, Tail(cands))

\* removeDuplicatesFile: the lines in the order of their first occurrence
RECURSIVE RemoveDuplicates(_)
RemoveDuplicates(lines) ==
  IF lines = <<>> THEN <<>>
  ELSE LET front == RemoveDuplicates(SubSeq(lines, 1, Len(lines) - 1))
           last == lines[Len(lines)]
       IN IF last \in SeqToSet(front) THEN front ELSE Append(front, last)

\* the order `sort` puts two lines in
LineLess(x, y) ==
  \/ x[2] < y[2]
  \/ x[2] = y[2] /\ x[4] < y[4]
  \/ x[2] = y[2] /\ x[4] = y[4] /\ x[6] < y[6]
  \/ x[2] = y[2] /\ x[4] = y[4] /\ x[6] = y[6] /\ x[8] < y[8]

RECURSIVE InsertLine(_, _)
InsertLine(l, sorted) ==
  IF sorted = <<>> THEN <<l>>
  ELSE IF LineLess(Head(sorted), l)
    THEN <<Head(sorted)>> \o InsertLine(l, Tail(sorted))
    ELSE <<l>> \o sorted

RECURSIVE SortLines(_)
SortLines(lines) ==
  IF lines = <<>> THEN <<>> ELSE InsertLine(Head(lines), SortLines(Tail(lines)))

\* sort "<file>" -o "<file>"
Sort(file) ==
  [head |-> SortLines(file.head \o file.tail), bulk |-> file.bulk, tail |-> <<>>]

\* sort -u "<file>" -o "<other file>"
SortUnique(file) ==
  [head |-> SortLines(RemoveDuplicates(file.head \o file.tail)),
   bulk |-> file.bulk, tail |-> <<>>]

\* `if (!seen.has(trimmed))`
IsNewInverted(seen, trimmed) == trimmed \in seen
IsNew(seen, trimmed) == trimmed \notin seen

\* the body of the fallback loop for one line; st.more counts the bulk lines
\* that are in `seen`
StreamLine(st, trimmed) ==
  IF IsNew(st.seen, trimmed)
    THEN LET grown == st.seen \cup {trimmed}
             full == Cardinality(grown) + st.more >= MAX_SET_SIZE
         IN [seen |-> IF full THEN {} ELSE grown,
             more |-> IF full THEN 0 ELSE st.more,
             out |-> Append(st.out, trimmed)]
    ELSE st

RECURSIVE StreamLines(_, _)
StreamLines(st, lines) ==
  IF lines = <<>> THEN st
  ELSE StreamLines(StreamLine(st, Head(lines)), Tail(lines))

\* the fallback loop over n lines none of which is in `seen` or equals
\* another: each is written, and `seen` is cleared whenever it reaches
\* MAX_SET_SIZE
StreamBulk(st, n) ==
  LET size == Cardinality(st.seen) + st.more + n IN
  IF size >= MAX_SET_SIZE
    THEN [st EXCEPT !.seen = {}, !.more = size % MAX_SET_SIZE]
    ELSE [st EXCEPT !.more = @ + n]

\* the streaming fallback: allinone_unique.txt before its sort
StreamDedupe(file) ==
  LET start == [seen |-> {}, more |-> 0, out |-> <<>>]
      afterHead == StreamLines(start, file.head)
      afterBulk == StreamBulk([afterHead EXCEPT !.out = <<>>], file.bulk)
      afterTail == StreamLines(afterBulk, file.tail)
  IN [head |-> afterHead.out, bulk |-> file.bulk, tail |-> afterTail.out]

InitRecords ==
  /\ pc = "classify"
  /\ runs = 1
  /\ bucket = {}
  /\ sortedFolders = <<>>
  /\ filteredFolders = <<>>
  /\ existingDates = {}
  /\ idx = 0
  /\ logs = <<>>
  /\ archive = {}
  /\ sameAccount = TRUE
  /\ staging = NoStaging
  /\ runLog = EmptyRunLog
  /\ genderResults = <<>>
  /\ crashedAfterUpload = {}
  /\ sshAuthFailed = FALSE
  /\ authLogged = 0
  /\ probedAfterAuth = FALSE
  /\ task = <<>>
  /\ BatchIdle
  /\ FetchIdle
  /\ MapIdle
  /\ logFiles \in
       {[f1 |-> [date |-> 1, records |-> r1, bulk |-> 0, readable |-> ok1],
         f2 |-> [date |-> 1, records |-> <<>>, bulk |-> n, readable |-> ok2],
         f3 |-> [date |-> 1, records |-> r3, bulk |-> 0, readable |-> ok3]] :
          r1 \in SeqsUpTo(Records, MaxRecords), n \in BulkSizes,
          r3 \in LastFiles, ok1 \in BOOLEAN, ok2 \in {TRUE},
          ok3 \in BOOLEAN}
  /\ rpc = "classify"
  /\ parsed = {}
  /\ order = <<>>
  /\ failedFiles = {}
  /\ scratch = [f \in SeqToSet(FileNames) |-> NoFile]
  /\ merged = NoFile
  /\ unique = NoFile
  /\ viaFallback = FALSE
  /\ sortRuns = <<>>
  /\ archived = NoFile
  /\ notFoundLog = <<>>
  /\ probeOutput = [f \in SeqToSet(FileNames) |-> <<>>]
  /\ appended = [f \in SeqToSet(FileNames) |-> 0]

\* parseLargeJsonFile on the records of a file
ParseRecords(file) ==
  ParseLines([entries |-> <<>>, unidentifiedFiles |-> <<>>, threw |-> FALSE],
             file.records, file.date)

\* output/<fileName> after writeFileSync and removeDuplicatesFile
ScratchOf(file) ==
  LET acc == ParseRecords(file) IN
  [head |-> RemoveDuplicates([i \in DOMAIN acc.entries |->
                                 Stringify(acc.entries[i])]),
   bulk |-> file.bulk, tail |-> <<>>]

\* the wrapper of one file, the wrappers of a batch returning in any order:
\* parseLargeJsonFile with the probe of its candidates, then the scratch
\* file; or a failure, when the read stream of the file fails or an error
\* leaves the loop over its lines
ParseFile(f) ==
  /\ rpc = "classify"
  /\ f \notin parsed
  /\ LET file == logFiles[f]
         acc == ParseRecords(file)
         cands == acc.unidentifiedFiles
     IN
       /\ parsed' = parsed \cup {f}
       /\ order' = Append(order, f)
       /\ \E probe \in {"ran", "skipped"} :
            IF cands # <<>> /\ probe = "ran"
              THEN \E out \in Outputs(cands) :
                     LET results == ParseOutput([yes |-> {}, no |-> {}], out)
                         found == NotFoundLines(results, cands)
                     IN /\ probeOutput' = [probeOutput EXCEPT ![f] = out]
                        /\ notFoundLog' = notFoundLog \o found
                        /\ appended' = [appended EXCEPT ![f] = Len(found)]
              ELSE /\ probe = "skipped"
                   /\ UNCHANGED <<probeOutput, notFoundLog, appended>>
       /\ IF file.readable /\ ~acc.threw
            THEN /\ scratch' = [scratch EXCEPT ![f] = ScratchOf(file)]
                 /\ UNCHANGED failedFiles
            ELSE /\ failedFiles' = failedFiles \cup {f}
                 /\ UNCHANGED scratch
  /\ UNCHANGED <<logFiles, rpc, merged, unique, viaFallback, sortRuns,
                 archived>>
  /\ UNCHANGED notRecVars

\* the lines of text file a followed by those of b, of which at most one
\* has bulk lines
Concat(a, b) ==
  IF a.bulk = 0
    THEN [head |-> a.head \o a.tail \o b.head, bulk |-> b.bulk,
          tail |-> b.tail]
    ELSE [head |-> a.head, bulk |-> a.bulk,
          tail |-> a.tail \o b.head \o b.tail]

\* `for (const fileName of files)` of step 3
MergeOrderAsCompleted(completion) == completion
MergeOrder(completion) == FileNames

\* the loop of step 3 over `names`: a scratch file that exists is appended to
\* allinone.txt
RECURSIVE MergeInto(_, _, _)
MergeInto(out, names, tempOutFiles) ==
  IF names = <<>> THEN out
  ELSE MergeInto(IF tempOutFiles[Head(names)] = NoFile THEN out
                 ELSE Concat(out, tempOutFiles[Head(names)]),
                 Tail(names), tempOutFiles)

EmptyFile == [head |-> <<>>, bulk |-> 0, tail |-> <<>>]

\* step 3: the scratch files that exist, in the order of `files`
MergeFiles ==
  /\ rpc = "classify"
  /\ parsed = SeqToSet(FileNames)
  /\ merged' = MergeInto(EmptyFile, MergeOrder(order), scratch)
  /\ rpc' = "sort"
  /\ UNCHANGED <<logFiles, parsed, order, failedFiles, scratch, unique,
                 viaFallback, sortRuns, archived, notFoundLog, probeOutput,
                 appended>>
  /\ UNCHANGED notRecVars

Ran(cmd, ok) == [cmd |-> cmd, ok |-> ok]

\* what step 4 does after the sort at the end of the fallback has thrown:
\* `throw sortError`, which leaves processGender
OnSortError == "failed"

\* step 4: sort -u, or, when it throws, the fallback and its sort
SortOrFallback ==
  /\ rpc = "sort"
  /\ \E primaryOk \in BOOLEAN, fallbackSortOk \in BOOLEAN :
       IF primaryOk
         THEN /\ unique' = SortUnique(merged)
              /\ viaFallback' = FALSE
              /\ sortRuns' = <<Ran("sort -u", TRUE)>>
              /\ rpc' = "upload"
         ELSE /\ unique' = IF fallbackSortOk THEN Sort(StreamDedupe(merged))
                           ELSE StreamDedupe(merged)
              /\ viaFallback' = TRUE
              /\ sortRuns' = <<Ran("sort -u", FALSE), Ran("sort", fallbackSortOk)>>
              /\ rpc' = IF fallbackSortOk THEN "upload" ELSE OnSortError
  /\ UNCHANGED <<logFiles, parsed, order, failedFiles, scratch, merged,
                 archived, notFoundLog, probeOutput, appended>>
  /\ UNCHANGED notRecVars

\* rcloneCopy of allinone_unique.txt
UploadUnique ==
  /\ rpc = "upload"
  /\ archived' = unique
  /\ rpc' = "uploaded"
  /\ UNCHANGED <<logFiles, parsed, order, failedFiles, scratch, merged,
                 unique, viaFallback, sortRuns, notFoundLog, probeOutput,
                 appended>>
  /\ UNCHANGED notRecVars

NextRecords ==
  \/ \E f \in SeqToSet(FileNames) : ParseFile(f)
  \/ MergeFiles
  \/ SortOrFallback
  \/ UploadUnique

SpecRecords == InitRecords /\ [][NextRecords]_vars

(* ---------------------------------------------------------------------- *)
(* SpecHtmlMap: the write-batched identifier cache of urlIdentifier.ts:    *)
(* addToHtmlMap called by the concurrent file tasks, flushHtmlMapBatch and *)
(* flushAllHtmlMapBatches.  A step is the code between two awaits; several *)
(* flushes can await sqlQuery at the same time.  The INSERT ... ON         *)
(* DUPLICATE KEY UPDATE statement is modelled with `id` as the key of      *)
(* html_map.  A statement that fails has written nothing, or has been      *)
(* applied and its acknowledgement lost.                                   *)
(* ---------------------------------------------------------------------- *)
\* the entries the model follows: md5Item and the identifier of the element
Items == {[md5Item |-> 1, identifier |-> 11], [md5Item |-> 2, identifier |-> 12]}

\* the queue when the model starts: empty, or filled by earlier calls up to
\* two or one entries below a flush
QueueStarts == {0, HTML_MAP_BATCH_SIZE - 2, HTML_MAP_BATCH_SIZE - 1}

Size(q) == q.fresh + q.again + Len(q.items)

\* htmlMapInsertQueue.push(...batch)
Push(q, batch) ==
  [fresh |-> q.fresh + batch.fresh, again |-> q.again + batch.again,
   items |-> q.items \o batch.items]

InitHtmlMap ==
  /\ pc = "classify"
  /\ runs = 1
  /\ bucket = {}
  /\ sortedFolders = <<>>
  /\ filteredFolders = <<>>
  /\ existingDates = {}
  /\ idx = 0
  /\ logs = <<>>
  /\ archive = {}
  /\ sameAccount = TRUE
  /\ staging = NoStaging
  /\ runLog = EmptyRunLog
  /\ genderResults = <<>>
  /\ crashedAfterUpload = {}
  /\ sshAuthFailed = FALSE
  /\ authLogged = 0
  /\ probedAfterAuth = FALSE
  /\ task = <<>>
  /\ BatchIdle
  /\ FetchIdle
  /\ RecIdle
  /\ \E n \in QueueStarts :
       /\ htmlMapInsertQueue = [EmptyQueue EXCEPT !.fresh = n]
       /\ flushLog = [EmptyFlushLog EXCEPT !.added.fresh = n]
  /\ flights = <<>>
  /\ html_map = [bulk |-> 0, rows |-> <<>>]
  /\ MoreIdle

\* `if (htmlMapInsertQueue.length >= HTML_MAP_BATCH_SIZE)`
ShouldFlush(length) == length >= HTML_MAP_BATCH_SIZE

RemoveAt(s, i) == SubSeq(s, 1, i - 1) \o SubSeq(s, i + 1, Len(s))
Max(a, b) == IF a >= b THEN a ELSE b

\* INSERT ... ON DUPLICATE KEY UPDATE for one row of VALUES
UpsertInsertOnly(rows, e) == Append(rows, e)
Upsert(rows, e) ==
  IF \E i \in DOMAIN rows : rows[i].md5Item = e.md5Item
    THEN [i \in DOMAIN rows |->
            IF rows[i].md5Item = e.md5Item THEN e ELSE rows[i]]
    ELSE Append(rows, e)

RECURSIVE UpsertItems(_, _)
UpsertItems(rows, items) ==
  IF items = <<>> THEN rows
  ELSE UpsertItems(Upsert(rows, Head(items)), Tail(items))

\* the statement of a flush, applied to the table
UpsertAll(table, batch) ==
  [bulk |-> table.bulk + batch.fresh,
   rows |-> UpsertItems(table.rows, batch.items)]

\* the catch block of flushHtmlMapBatch
OnFlushError(queue, batch) == Push(queue, batch)

\* flushHtmlMapBatch from its entry to `await sqlQuery`, the queue being q
StartFlush(q) ==
  IF Size(q) = 0
    THEN /\ htmlMapInsertQueue' = q
         /\ UNCHANGED flights
    ELSE /\ htmlMapInsertQueue' = EmptyQueue
         /\ flights' = Append(flights, q)

\* addToHtmlMap: the push and, when the queue is long enough, the flush up
\* to its await
AddToHtmlMap ==
  /\ flushLog.adds < MaxAdds
  /\ \E one \in {[EmptyQueue EXCEPT !.fresh = 1]}
                  \cup {[EmptyQueue EXCEPT !.items = <<e>>] : e \in Items} :
       LET queue == Push(htmlMapInsertQueue, one) IN
         /\ IF ShouldFlush(Size(queue))
              THEN /\ StartFlush(queue)
                   /\ flushLog' = [flushLog EXCEPT
                                     !.adds = @ + 1,
                                     !.added = Push(@, one),
                                     !.largest = Max(@, Size(queue))]
              ELSE /\ htmlMapInsertQueue' = queue
                   /\ flushLog' = [flushLog EXCEPT !.adds = @ + 1,
                                                   !.added = Push(@, one)]
                   /\ UNCHANGED flights
  /\ UNCHANGED html_map
  /\ UNCHANGED notMapVars

\* flushAllHtmlMapBatches up to the await of its flush
FlushAll ==
  /\ Size(htmlMapInsertQueue) > 0
  /\ StartFlush(htmlMapInsertQueue)
  /\ flushLog' = [flushLog EXCEPT !.largest = Max(@, Size(htmlMapInsertQueue))]
  /\ UNCHANGED html_map
  /\ UNCHANGED notMapVars

\* sqlQuery of a flush resolves
FlushSucceeds ==
  \E i \in DOMAIN flights :
    /\ html_map' = UpsertAll(html_map, flights[i])
    /\ flights' = RemoveAt(flights, i)
    /\ flushLog' = [flushLog EXCEPT !.done = Push(@, flights[i])]
    /\ UNCHANGED htmlMapInsertQueue
    /\ UNCHANGED notMapVars

\* sqlQuery of a flush rejects
FlushFails ==
  /\ flushLog.failures < MaxFailures
  /\ \E i \in DOMAIN flights : \E applied \in BOOLEAN :
       LET batch == flights[i]
           back == IF applied
                     THEN [batch EXCEPT !.fresh = 0,
                                        !.again = batch.fresh + batch.again]
                     ELSE batch
       IN
         /\ html_map' = IF applied THEN UpsertAll(html_map, batch)
                        ELSE html_map
         /\ htmlMapInsertQueue' = OnFlushError(htmlMapInsertQueue, back)
         /\ flights' = RemoveAt(flights, i)
         /\ flushLog' = [flushLog EXCEPT
                           !.failures = @ + 1,
                           !.rewrites = IF applied THEN @ + Size(batch) ELSE @]
  /\ UNCHANGED notMapVars

NextHtmlMap ==
  \/ AddToHtmlMap
  \/ FlushAll
  \/ FlushSucceeds
  \/ FlushFails

SpecHtmlMap == InitHtmlMap /\ [][NextHtmlMap]_vars

(* ---------------------------------------------------------------------- *)
(* SpecPool: calls of sqlQuery over the shared pool of utils/database.ts.  *)
(* Call 1 is the insert of the state row, sqlQuery(cmdUpdate,              *)
(* databaseGlobal, 'update'); the other calls are made by file tasks that  *)
(* are still running: lookups in the database of the item and flushes of   *)
(* html_map in config.databases.BRAZZERS.  A step is the code between two  *)
(* awaits.  pool.query takes a free connection, or opens one when none is  *)
(* free, for one statement; which free connection it takes is up to the    *)
(* driver.                                                                 *)
(* ---------------------------------------------------------------------- *)
Calls == 1..MaxCalls
Databases == {databaseGlobal, BRAZZERS}
NewCall(database) == [database |-> database, pc |-> "idle", conn |-> 0]

InitPool ==
  /\ pc = "insert"
  /\ runs = 1
  /\ bucket = {}
  /\ sortedFolders = <<>>
  /\ filteredFolders = <<>>
  /\ existingDates = {}
  /\ idx = 0
  /\ logs = <<>>
  /\ archive = {}
  /\ sameAccount = TRUE
  /\ staging = NoStaging
  /\ runLog = EmptyRunLog
  /\ genderResults = <<>>
  /\ crashedAfterUpload = {}
  /\ sshAuthFailed = FALSE
  /\ authLogged = 0
  /\ probedAfterAuth = FALSE
  /\ task = <<>>
  /\ BatchIdle
  /\ FetchIdle
  /\ RecIdle
  /\ htmlMapInsertQueue = EmptyQueue
  /\ flights = <<>>
  /\ html_map = [bulk |-> 0, rows |-> <<>>]
  /\ flushLog = EmptyFlushLog
  /\ selected = <<>>
  /\ free = {}
  /\ call \in {c \in [Calls -> {NewCall(d) : d \in Databases}] :
                 c[1].database = databaseGlobal}
  /\ executed = {}
  /\ CacheIdle

\* the connections pool.query can take: a free one, or a new one when none
\* is free and fewer than connectionLimit are open
Acquirable(conns, idle) ==
  IF idle # {} THEN idle
  ELSE IF Len(conns) < connectionLimit THEN {Len(conns) + 1}
  ELSE {}

\* the pool after connection k has been taken
Opened(conns, k) == IF k > Len(conns) THEN Append(conns, "none") ELSE conns

\* sqlQuery up to `await pool.query(USE ...)`
SqlQuery(c) ==
  /\ call[c].pc = "idle"
  /\ \E k \in Acquirable(selected, free) :
       /\ selected' = Opened(selected, k)
       /\ free' = free \ {k}
       /\ call' = [call EXCEPT ![c].pc = "use", ![c].conn = k]
  /\ UNCHANGED executed
  /\ UNCHANGED notPoolVars

\* the USE statement has ended and its connection is released; sqlQuery goes
\* on to `await pool.query(query)`, which takes a connection of its own, or
\* rethrows the error of the USE statement
UseDone(c) ==
  /\ call[c].pc = "use"
  /\ \E ok \in BOOLEAN :
       LET k == call[c].conn
           idle == free \cup {k}
       IN
       IF ok
         THEN LET used == [selected EXCEPT ![k] = call[c].database] IN
              \E q \in Acquirable(used, idle) :
                /\ selected' = Opened(used, q)
                /\ free' = idle \ {q}
                /\ call' = [call EXCEPT ![c].pc = "query", ![c].conn = q]
                /\ executed' = executed \cup
                     {[call |-> c, database |-> call[c].database,
                       on |-> selected'[q]]}
         ELSE /\ free' = idle
              /\ call' = [call EXCEPT ![c].pc = "threw", ![c].conn = 0]
              /\ UNCHANGED <<selected, executed>>
  /\ UNCHANGED notPoolVars

\* the statement has ended and its connection is released; sqlQuery returns
\* the result or rethrows the error
QueryDone(c) ==
  /\ call[c].pc = "query"
  /\ free' = free \cup {call[c].conn}
  /\ \E ok \in BOOLEAN :
       call' = [call EXCEPT ![c].pc = IF ok THEN "returned" ELSE "threw",
                            ![c].conn = 0]
  /\ UNCHANGED <<selected, executed>>
  /\ UNCHANGED notPoolVars

NextPool ==
  \E c \in Calls :
    \/ SqlQuery(c)
    \/ UseDone(c)
    \/ QueryDone(c)

SpecPool == InitPool /\ [][NextPool]_vars

(* ---------------------------------------------------------------------- *)
(* SpecCache: the in-memory identifier cache md5Associations of            *)
(* urlIdentifier.ts and the calls of identifyItem made by the concurrent   *)
(* file tasks of one run.  loadHtmlMap has filled the cache once, before   *)
(* the first partition.  A step is the code between two awaits: the        *)
(* lookup of a call (sqlQuery, getAZNudePageID) is awaited, and so is      *)
(* addToHtmlMap, whose test and assignment run without an await between    *)
(* them.  Two lookups of one URL need not find the same identifier.        *)
(* ---------------------------------------------------------------------- *)
Resolves == 1..MaxResolves
Md5Items == 1..MaxUrls
ElementIds == 1..MaxIds
NoEntry == 0          \* `md5Item in md5Associations` is false
NotIdentified == -1   \* identifyItem returns 'unidentified'

NewResolve ==
  [pc |-> "idle", url |-> 0, cached |-> FALSE, lookups |-> 0,
   found |-> NoEntry, ret |-> NoEntry]

\* `if (!(md5Item in md5Associations)) md5Associations[md5Item] = {...}`
AddEntryOverwrite(cache, md5Item, elementId) ==
  [cache EXCEPT ![md5Item] = elementId]
AddEntry(cache, md5Item, elementId) ==
  IF cache[md5Item] = NoEntry
    THEN [cache EXCEPT ![md5Item] = elementId]
    ELSE cache

InitCache ==
  /\ pc = "classify"
  /\ runs = 1
  /\ bucket = {}
  /\ sortedFolders = <<>>
  /\ filteredFolders = <<>>
  /\ existingDates = {}
  /\ idx = 0
  /\ logs = <<>>
  /\ archive = {}
  /\ sameAccount = TRUE
  /\ staging = NoStaging
  /\ runLog = EmptyRunLog
  /\ genderResults = <<>>
  /\ crashedAfterUpload = {}
  /\ sshAuthFailed = FALSE
  /\ authLogged = 0
  /\ probedAfterAuth = FALSE
  /\ task = <<>>
  /\ BatchIdle
  /\ FetchIdle
  /\ RecIdle
  /\ htmlMapInsertQueue = EmptyQueue
  /\ flights = <<>>
  /\ html_map = [bulk |-> 0, rows |-> <<>>]
  /\ flushLog = EmptyFlushLog
  /\ PoolIdle
  /\ md5Associations \in [Md5Items -> ElementIds \cup {NoEntry}]
  /\ resolve = [r \in Resolves |-> NewResolve]

\* identifyItem(host, uri) up to its first await: the test of the cache,
\* and on a miss the start of the lookup
IdentifyItem(r) ==
  /\ resolve[r].pc = "idle"
  /\ \E md5Item \in Md5Items :
       resolve' =
         IF md5Associations[md5Item] # NoEntry
           THEN [resolve EXCEPT ![r].pc = "returned",
                                ![r].url = md5Item,
                                ![r].cached = TRUE,
                                ![r].ret = md5Associations[md5Item]]
           ELSE [resolve EXCEPT ![r].pc = "lookup", ![r].url = md5Item]
  /\ UNCHANGED <<md5Associations, poolVars>>
  /\ UNCHANGED <<pipeVars, sshVars, batchVars, fetchVars, recVars, mapVars>>

\* the lookup resolves: no row, an error or no page id returns
\* 'unidentified'; a row is handed to addToHtmlMap, which adds the entry if
\* the key has none, pushes the row on the queue and starts a flush when the
\* queue is long enough
LookupDone(r) ==
  /\ resolve[r].pc = "lookup"
  /\ \E elementId \in ElementIds \cup {NoEntry} :
       IF elementId = NoEntry
         THEN /\ resolve' = [resolve EXCEPT ![r].pc = "returned",
                                            ![r].lookups = @ + 1,
                                            ![r].ret = NotIdentified]
              /\ UNCHANGED <<md5Associations, htmlMapInsertQueue, flights>>
         ELSE LET queue == Push(htmlMapInsertQueue,
                                [EmptyQueue EXCEPT !.fresh = 1])
              IN
              /\ md5Associations' =
                   AddEntry(md5Associations, resolve[r].url, elementId)
              /\ IF ShouldFlush(Size(queue))
                   THEN StartFlush(queue)
                   ELSE /\ htmlMapInsertQueue' = queue
                        /\ UNCHANGED flights
              /\ resolve' = [resolve EXCEPT ![r].pc = "added",
                                            ![r].lookups = @ + 1,
                                            ![r].found = elementId]
  /\ UNCHANGED <<html_map, flushLog, poolVars>>
  /\ UNCHANGED <<pipeVars, sshVars, batchVars, fetchVars, recVars>>

\* addToHtmlMap has resolved: `return md5Associations[md5Item]`
ReturnEntry(r) ==
  /\ resolve[r].pc = "added"
  /\ resolve' = [resolve EXCEPT ![r].pc = "returned",
                                ![r].ret = md5Associations[resolve[r].url]]
  /\ UNCHANGED <<md5Associations, poolVars>>
  /\ UNCHANGED <<pipeVars, sshVars, batchVars, fetchVars, recVars, mapVars>>

NextCache ==
  \E r \in Resolves :
    \/ IdentifyItem(r)
    \/ LookupDone(r)
    \/ ReturnEntry(r)

SpecCache == InitCache /\ [][NextCache]_vars

(* ---------------------------------------------------------------------- *)
(* Properties of the partition pipeline (Spec)                             *)
(* ---------------------------------------------------------------------- *)
MostRecent(S) == CHOOSE d \in S : \A e \in S : e <= d

\* the catalog of the current run lists the partition of date key d
Candidate(d) ==
  \E i \in DOMAIN filteredFolders : FolderDate(filteredFolders[i]) = d

\* the catalog has been built and the table is as it was when it was built
CatalogFresh == runLog.catalogBuilt /\ runLog.inserted = {}

\* C1: a step inserts the ProcessingState row of a date key only if, earlier
\* in the same run, the archive of that date key was uploaded and doesS3Exist
\* returned true for it; a date key whose verification returned false in
\* this run has no row inserted by this run.
C1_RowOnlyAfterVerification ==
  /\ [][\A d \in Dates :
          RowCount(d)' > RowCount(d)
            => d \in runLog.verified /\ d \in runLog.uploaded]_vars
  /\ [](runLog.verifyMissing \notin runLog.inserted)

C1_Witness ==
  \E d \in Dates :
    /\ d \in runLog.inserted
    /\ d \in runLog.verified
    /\ RowCount(d) = 1

\* C2: whatever the runs and the crashes between upload and state write, the
\* logs table never holds more than one row for the same date key.
C2_AtMostOneRowPerDate == \A d \in Dates : RowCount(d) <= 1

C2_Witness ==
  \E d \in crashedAfterUpload : RowCount(d) = 1 /\ runs >= 2

\* C3: a run never downloads, classifies, uploads or inserts a row for a
\* date key that had a row with status 'downloaded' when its catalog was
\* built.
C3_ProcessedPartitionUntouched ==
  (runLog.downloaded \cup runLog.classified \cup runLog.uploaded
     \cup runLog.inserted) \cap runLog.hadRow = {}

C3_Witness ==
  /\ runLog.catalogBuilt
  /\ runLog.inserted # {}
  /\ \E d \in runLog.hadRow : d # MostRecent(bucket)

\* C4 as stated: a listed partition is a candidate iff its date key has no
\* row.
C4_CandidateIffNoRow ==
  CatalogFresh => \A d \in bucket : Candidate(d) <=> RowCount(d) = 0

\* C4 amended: a listed partition is a candidate iff its date key has no row
\* and it is not the most recent partition of the listing.
C4_CandidateIffNoRowAndNotLast ==
  CatalogFresh =>
    \A d \in bucket :
      Candidate(d) <=> (RowCount(d) = 0 /\ d # MostRecent(bucket))

C4_Witness ==
  /\ CatalogFresh
  /\ \E d \in bucket : Candidate(d)
  /\ \E d \in bucket : RowCount(d) = 1 /\ d # MostRecent(bucket)
  /\ RowCount(MostRecent(bucket)) = 0

\* C5: the local staging artifacts of a partition are deleted (by the cleanup
\* that follows its upload) only after its ProcessingState row has been
\* written.
C5_DeleteOnlyAfterRow == \A d \in runLog.cleaned : RowCount(d) >= 1

\* C6: when the download or the merge of a partition fails, no row is
\* written for it and, by the time the run has finished, the next candidate
\* of the catalog has been taken up.
C6_FailureAbortsOnlyPartition ==
  (pc = "done" /\ runLog.failed # 0) =>
    /\ FolderDate(filteredFolders[runLog.failed]) \notin runLog.inserted
    /\ runLog.failed < Len(filteredFolders) =>
         FolderDate(filteredFolders[runLog.failed + 1]) \in runLog.downloaded

\* C7: once doesS3Exist has reported the uploaded object missing, the run
\* does nothing more: no row for that partition, and no download,
\* classification, upload or insert until the process is started again.
C7_VerifyMissingHaltsRun ==
  /\ [](runLog.verifyMissing # 0 =>
          pc = "exited" /\ runLog.verifyMissing \notin runLog.inserted)
  /\ [][(runLog.verifyMissing # 0 /\ runs' = runs) =>
          (logs' = logs /\ archive' = archive /\ runLog' = runLog)]_vars

C7_Witness ==
  /\ runLog.verifyMissing # 0
  /\ idx < Len(filteredFolders)
  /\ pc = "exited"

\* C36: whatever the batches report for the files of a partition, also when
\* no file wrote a scratch file, allinone.txt exists when step 4 starts and
\* allinone_unique.txt when the upload starts; the step after a successful
\* verification is the insert, and the insert writes the row unless the
\* statement itself throws or the process dies.
C36_FileFailuresNeverBlockCommit ==
  /\ [](pc = "sort" => "merged" \in staging.files)
  /\ [](pc = "upload" => "unique" \in staging.files)
  /\ [][(pc = "verify" /\ CurrentDate \in runLog'.verified) =>
          pc' = "insert"]_vars
  /\ [][(pc = "insert" /\ pc' # "insert" /\ pc' # "crashed"
           /\ genderResults' # Failure) =>
          logs' = Append(logs, StateRow(CurrentDate))]_vars

C36_Witness ==
  \E d \in runLog.noScratch :
    /\ d \in runLog.uploaded
    /\ d \in runLog.verified
    /\ d \in runLog.inserted
    /\ RowCount(d) = 1

(* ---------------------------------------------------------------------- *)
(* Properties of the existence batcher (SpecSSH)                           *)
(* ---------------------------------------------------------------------- *)
\* the lines of file f that identifyItem resolves, in file order
Identified(f) == SelectSeq2([i \in DOMAIN f |-> i],
                            {i \in DOMAIN f : f[i] = "identified"})

\* C8: once the permanent authentication failure has been detected
\* (sshAuthFailed is set), the remote probe command is never executed again.
C8_NoProbeAfterAuthFailure == ~probedAfterAuth

\* C9: the authentication failure is logged exactly once: never twice, and
\* once as soon as it has been detected, however many tasks ran into it.
C9_AuthFailureLoggedOnce ==
  /\ authLogged <= 1
  /\ sshAuthFailed <=> authLogged = 1

C9_Witness ==
  /\ authLogged = 1
  /\ Cardinality({t \in Tasks : task[t].hitAuth}) >= 2

\* C10: a batch whose probe keeps failing transiently is probed at most 10
\* times, with one 10 second wait per failed attempt, and is then abandoned
\* without failing the file: processBatchSSHChecks returns, and the file is
\* classified to its last line.
C10_TransientRetryThenGiveUp ==
  \A t \in Tasks :
    LET tk == task[t] IN
      /\ tk.batchProbes <= MaxAttempts
      /\ tk.unexpectedError <= MaxAttempts
      /\ tk.waited = BackoffMs * tk.unexpectedError
      /\ tk.pc = "sleep" => tk.batchProbes = tk.unexpectedError
      /\ tk.pc \in {"read", "sleep", "returned", "done"}
      /\ tk.pc = "done" =>
           /\ tk.pos = Len(tk.file) + 1
           /\ tk.entries = Identified(tk.file)

C10_Witness ==
  \E t \in Tasks :
    /\ task[t].gaveUp
    /\ task[t].file = LongFile
    /\ task[t].pc = "done"
    /\ task[t].entries = <<BATCH_SIZE + 1>>
\* C33: the attempt of a task that fails with the authentication failure
\* ends the call at once: the step leaves the task returned from
\* processBatchSSHChecks, not in the backoff and not failed, and the task
\* never executes the probe command again.
C33_AuthFailureAbandonsAtOnce ==
  /\ [][\A t \in Tasks :
          (~task[t].hitAuth /\ task'[t].hitAuth) =>
            /\ task'[t].pc = "returned"
            /\ task'[t].waited = 0]_vars
  /\ [](\A t \in Tasks :
          task[t].hitAuth =>
            /\ task[t].pc \in {"returned", "read", "done"}
            /\ ~task[t].probedAfterHit
            /\ ~task[t].gaveUp)

C33_Witness ==
  \E t \in Tasks :
    /\ task[t].hitAuth
    /\ task[t].file = LongFile
    /\ task[t].pc = "done"
    /\ task[t].entries = <<BATCH_SIZE + 1>>
    /\ Len(task[t].handed) = 1

\* C34: a task in the backoff has executed the probe for its batch as often
\* as it has failed, at most 10 times, and has waited 10 seconds per failed
\* attempt; the step that abandons the batch is taken from the backoff after
\* the tenth failure and executes no probe; and every call of
\* processBatchSSHChecks that has reached the backoff returns.
C34_AtMostTenProbesThenReturn ==
  /\ [](\A t \in Tasks :
          task[t].pc = "sleep" =>
            /\ task[t].batchProbes = task[t].unexpectedError
            /\ task[t].batchProbes \in 1..MaxAttempts
            /\ task[t].waited = BackoffMs * task[t].batchProbes)
  /\ [][\A t \in Tasks :
          /\ (~task[t].gaveUp /\ task'[t].gaveUp) =>
               /\ task[t].pc = "sleep"
               /\ task[t].batchProbes = MaxAttempts
               /\ task[t].waited = MaxAttempts * BackoffMs
               /\ task'[t].pc = "returned"
          /\ (task[t].pc = "sleep" /\ task[t].batchProbes = MaxAttempts
                 /\ task'[t] # task[t]) => task'[t].gaveUp]_vars
  /\ \A t \in Tasks : (task[t].pc = "sleep") ~> (task[t].pc = "returned")

C34_Witness ==
  \E t \in Tasks :
    /\ task[t].pc = "sleep"
    /\ task[t].batchProbes = MaxAttempts
    /\ task[t].waited = MaxAttempts * BackoffMs

(* ---------------------------------------------------------------------- *)
(* Properties of the batch loop (SpecBatch, SpecBatchFair)                 *)
(* ---------------------------------------------------------------------- *)
Incomplete == Failed("File did not complete within batch timeout")
TimedOut == Failed("Timeout: File processing exceeded 30 minutes")
BatchNo(f) == (f - 1) \div FILE_BATCH_SIZE
InFlight == {f \in Files : parse[f] = "running"}

\* C11: the step in which the batch timer ends the wait reports every file of
\* the batch without a tracked result as failed with 'File did not complete
\* within batch timeout', reports every other file of the batch with its
\* tracked result, and leads to the flush, after which the next batch is
\* started (or the loop ends when there is none).
C11_BatchDeadlineReportsIncomplete ==
  /\ [][(bpc = "wait" /\ waitEnded' = "timeout") =>
          /\ \A f \in Batch(bi) :
               batchResults'[f] = IF completionTracker[f] = NoResult
                                    THEN Incomplete
                                    ELSE completionTracker[f]
          /\ bpc' = "flush"]_vars
  /\ [][bpc = "flush" =>
          \/ bpc' = "flush"
          \/ IF bi + FILE_BATCH_SIZE < files
               THEN bpc' = "wait" /\ bi' = bi + FILE_BATCH_SIZE
               ELSE bpc' = "merge"]_vars

C11_Witness ==
  /\ bi = FILE_BATCH_SIZE
  /\ bpc = "wait"
  /\ batchResults[1] = Incomplete
  /\ batchResults[2] = Completed(Entries(2))
  /\ parse[FILE_BATCH_SIZE + 1] = "running"

\* C12: the step in which the timer of file f fires gives f the result
\* {success: false, entryCount: 0}, writes no scratch file for f, and leaves
\* the tracked result, the scratch file and the classification of every
\* other file as they were; a file reported successful always carries the
\* entries of its own content.
C12_FileTimeoutFailsOnlyThatFile ==
  /\ [][\A f \in Files :
          (completionTracker[f] = NoResult
             /\ completionTracker'[f].error = TimedOut.error) =>
            /\ completionTracker'[f].success = FALSE
            /\ completionTracker'[f].entryCount = 0
            /\ tempOutFile'[f] = -1
            /\ \A g \in Files \ {f} :
                 /\ completionTracker'[g] = completionTracker[g]
                 /\ tempOutFile'[g] = tempOutFile[g]
                 /\ parse'[g] = parse[g]
                 /\ batchResults'[g] \in {batchResults[g],
                                          completionTracker[g]}]_vars
  /\ [](\A g \in Files :
          completionTracker[g].success =>
            /\ completionTracker[g].entryCount = Entries(g)
            /\ tempOutFile[g] = Entries(g))

C12_Witness ==
  /\ files >= 2
  /\ completionTracker[1] = TimedOut
  /\ parse[1] = "running"
  /\ completionTracker[2] = Completed(Entries(2))
  /\ tempOutFile[2] = Entries(2)
  /\ batchResults[2] = Completed(Entries(2))

\* C13: the loop never stays in the wait on a batch: it waits only while a
\* file of the batch has no result, and from the wait on a batch it reaches
\* the next batch or the end of the loop, whether or not the classification
\* of the slow files ever ends.
C13_BatchWaitEnds ==
  /\ [](bpc = "wait" => \E f \in Batch(bi) : completionTracker[f] = NoResult)
  /\ \A b \in {0, FILE_BATCH_SIZE} :
       (bpc = "wait" /\ bi = b) ~> (bpc = "merge" \/ bi > b)

C13_Witness ==
  /\ bpc = "merge"
  /\ files > FILE_BATCH_SIZE
  /\ parse[1] = "running"
  /\ waitEnded = "all"

\* C14: at most FILE_BATCH_SIZE classifications are in flight, and all
\* classifications in flight belong to the same batch.
C14_BoundedSequentialBatches ==
  /\ Cardinality(InFlight) <= FILE_BATCH_SIZE
  /\ \A f \in InFlight : \A g \in InFlight : BatchNo(f) = BatchNo(g)
\* C31: the step that builds the results of a batch gives every file of the
\* batch one result, and the successes and the errors counted from them add
\* up to the number of files of the batch; when the loop is over,
\* totalProcessed is the number of files reported successful, totalErrors the
\* number of files reported failed, and together they are the number of
\* files of the partition.
C31_OneResultPerFile ==
  /\ [][(bpc = "wait" /\ bpc' = "flush") =>
          /\ \A f \in Batch(bi) : batchResults'[f] # NoResult
          /\ BatchSuccesses(batchResults', bi) + BatchErrors(batchResults', bi)
               = Cardinality(Batch(bi))]_vars
  /\ [](bpc = "merge" =>
          /\ totalProcessed = Cardinality({f \in Files : batchResults[f].success})
          /\ totalErrors = Cardinality({f \in Files : ~batchResults[f].success})
          /\ totalProcessed + totalErrors = files)

C31_Witness ==
  /\ bpc = "merge"
  /\ files = FILE_BATCH_SIZE + 1
  /\ totalErrors = 2
  /\ totalProcessed = FILE_BATCH_SIZE - 1

C15_AtMostTwentyInFlight == inflight <= DOWNLOAD_BATCH_SIZE

C15_Witness ==
  /\ fpc = "group"
  /\ fi = DOWNLOAD_BATCH_SIZE
  /\ inflight = DOWNLOAD_BATCH_SIZE

\* C16: the step in which the download of one object fails makes
\* downloadFolder reject; from then on no further object is requested, the
\* error has left processGender, and the partition has not been classified,
\* merged, uploaded, verified or given a row.
C16_FetchFailureAbortsPartition ==
  /\ [][(fpc = "group" /\ inflight' = inflight - 1
            /\ totalDownloaded' = totalDownloaded) => fpc' = "rejected"]_vars
  /\ [][fpc = "rejected" => requested' = requested /\ fpc' = "rejected"]_vars
  /\ [](fpc = "rejected" =>
          /\ pc = "done"
          /\ genderResults = Failure
          /\ CurrentDate \notin (runLog.classified \cup runLog.uploaded
                                  \cup runLog.verified \cup runLog.inserted)
          /\ staging.files \cap {"scratch", "merged", "unique"} = {}
          /\ archive = {}
          /\ logs = <<>>)

C16_Witness ==
  /\ fpc = "rejected"
  /\ fileKeys > DOWNLOAD_BATCH_SIZE
  /\ requested = DOWNLOAD_BATCH_SIZE
  /\ totalDownloaded = DOWNLOAD_BATCH_SIZE - 1
  /\ inflight = 0
(* ---------------------------------------------------------------------- *)
(* Properties of the records (SpecRecords)                                 *)
(* ---------------------------------------------------------------------- *)
\* the records of file f the Resolver is asked about and identifies
IdentifiedRecords(f) ==
  {i \in DOMAIN logFiles[f].records :
     LET r == logFiles[f].records[i] IN
       r.json /\ r.ip # 0 /\ identifyItem(r.url).kind = "association"}

\* the records of file f that become candidates of the existence probe
Candidates(f) ==
  {i \in DOMAIN logFiles[f].records :
     LET r == logFiles[f].records[i] IN
       r.json /\ r.ip # 0 /\ identifyItem(r.url).kind = "unidentified"}

\* the tuples of the identified records of file f
ExpectedTuples(f) ==
  {LET r == logFiles[f].records[i] IN
     <<<<identifyItem(r.url).db, identifyItem(r.url).id>>, HashIP(r.ip),
       logFiles[f].date>> : i \in IdentifiedRecords(f)}

AllExpectedTuples == UNION {ExpectedTuples(f) : f \in SeqToSet(FileNames)}

LinesOf(file) == SeqToSet(file.head) \cup SeqToSet(file.tail)
TextFiles == {scratch[f] : f \in SeqToSet(FileNames)}
               \cup {merged, unique, archived}

\* C17: when no file has failed, the uploaded archive holds one line for
\* each distinct tuple of the identified records, and no other line, each
\* once, in sorted order.
C17_ArchiveIsDistinctSortedTuples ==
  (rpc = "uploaded" /\ failedFiles = {}) =>
    /\ archived.bulk = logFiles.f2.bulk
    /\ archived.tail = <<>>
    /\ {TupleOf(l) : l \in SeqToSet(archived.head)} = AllExpectedTuples
    /\ Len(archived.head) = Cardinality(AllExpectedTuples)
    /\ \A i \in DOMAIN archived.head : \A j \in DOMAIN archived.head :
         i < j => LineLess(archived.head[i], archived.head[j])

\* C18: every line of a scratch file, of the merged file and of the archive
\* states the tuple of an identified record, so a file of invalid and
\* unidentified records yields none; a file whose probe output marks the
\* server path of its candidates EXISTS has appended each of them to the
\* side-channel log, and a file whose output marks it NOTEXISTS, or does not
\* mention it, or that ran no probe, has appended nothing.
C18_UnidentifiedOnlyToSideChannel ==
  /\ \A t \in TextFiles : \A l \in LinesOf(t) : TupleOf(l) \in AllExpectedTuples
  /\ \A f \in SeqToSet(FileNames) :
       /\ (f \in parsed \ failedFiles) =>
            {TupleOf(l) : l \in LinesOf(scratch[f])} = ExpectedTuples(f)
       /\ appended[f] =
            IF \E i \in DOMAIN probeOutput[f] :
                 probeOutput[f][i] = <<"EXISTS:", ServerPath(4)>>
              THEN Cardinality(Candidates(f))
              ELSE 0
  /\ Len(notFoundLog) = appended.f1 + appended.f2 + appended.f3
  /\ \A i \in DOMAIN notFoundLog :
       identifyItem(notFoundLog[i]).kind = "unidentified"

C18_Witness ==
  /\ rpc = "uploaded"
  /\ appended.f1 = 1
  /\ Candidates("f3") # {}
  /\ probeOutput.f3 = <<<<"NOTEXISTS:", ServerPath(4)>>>>
  /\ appended.f3 = 0
  /\ archived.head # <<>>

\* C19: every line of a scratch file, of the merged file and of the archive
\* has the fields db, id, ip and date and nothing else, its ip is the digest
\* of a client and never the client identifier itself, and the digests a
\* file writes are those of the clients of its identified records: records
\* of the same client carry the same digest, whichever file they are in.
C19_OnlyHashedClientIds ==
  /\ \A t \in TextFiles : \A l \in LinesOf(t) :
       /\ Len(l) = 8
       /\ <<l[1], l[3], l[5], l[7]>> = <<"db", "id", "ip", "date">>
       /\ l[6] \notin ClientIPs
  /\ \A f \in parsed \ failedFiles :
       {l[6] : l \in LinesOf(scratch[f])} =
         {HashIP(logFiles[f].records[i].ip) : i \in IdentifiedRecords(f)}

C19_Witness ==
  /\ rpc = "uploaded"
  /\ {l[6] : l \in LinesOf(archived)} = {HashIP(1), HashIP(2)}
  /\ \E i \in IdentifiedRecords("f1") : logFiles.f1.records[i].ip = 1
  /\ \E i \in IdentifiedRecords("f3") : logFiles.f3.records[i].ip = 1

\* the set of lines of a text file
LineSet(file) == [small |-> LinesOf(file), bulk |-> file.bulk]

\* C20: for the merged file the pipeline has produced, sort -u and the
\* streaming fallback with its sort leave the same set of lines, also when
\* the fallback has cleared its set.
C20_FallbackSameLineSet ==
  rpc \in {"sort", "upload", "uploaded"} =>
    LineSet(SortUnique(merged)) = LineSet(Sort(StreamDedupe(merged)))

C20_Witness ==
  /\ rpc = "uploaded"
  /\ viaFallback
  /\ merged.bulk + Len(merged.head) >= MAX_SET_SIZE
  /\ Len(unique.head) > Cardinality(SeqToSet(unique.head))
  /\ LineSet(unique) = LineSet(SortUnique(merged))

\* C21: the uploaded archive is in sorted order and holds no line twice,
\* whether sort -u or the fallback has written it.
C21_ArchiveSortedNoLineTwice ==
  rpc = "uploaded" =>
    /\ archived.tail = <<>>
    /\ \A i \in DOMAIN archived.head : \A j \in DOMAIN archived.head :
         i < j => /\ archived.head[i] # archived.head[j]
                  /\ ~LineLess(archived.head[j], archived.head[i])

\* a text file holds no line twice
NoLineTwice(file) ==
  /\ \A i \in DOMAIN file.head : \A j \in DOMAIN file.head :
       i # j => file.head[i] # file.head[j]
  /\ \A i \in DOMAIN file.tail : \A j \in DOMAIN file.tail :
       i # j => file.tail[i] # file.tail[j]
  /\ SeqToSet(file.head) \cap SeqToSet(file.tail) = {}

\* C22: step 4 fails the partition only if sort -u and the sort at the end
\* of the fallback have both failed; if one of them has succeeded,
\* allinone_unique.txt exists and holds no line twice, and the partition has
\* gone on to the upload.
C22_DedupeFailsOnlyIfBothSortsFail ==
  /\ rpc = "failed" =>
       /\ Len(sortRuns) = 2
       /\ \A i \in DOMAIN sortRuns : ~sortRuns[i].ok
  /\ (\E i \in DOMAIN sortRuns : sortRuns[i].ok) =>
       /\ rpc \in {"upload", "uploaded"}
       /\ unique # NoFile
       /\ NoLineTwice(unique)

\* the per-file results of the partition: the scratch file each file yields
\* on its own
ResultOf(f) == IF f \in failedFiles THEN NoFile ELSE ScratchOf(logFiles[f])

\* the artifact the per-file results give when merged in directory order
ArtifactOf(fallback) ==
  LET all == MergeInto(EmptyFile, FileNames,
                       [f \in SeqToSet(FileNames) |-> ResultOf(f)])
  IN IF fallback THEN Sort(StreamDedupe(all)) ELSE SortUnique(all)

\* C23: the scratch file of a file is the result of that file alone, and
\* the artifact is the one its per-file results give in directory order,
\* line for line, in whichever order the files have completed.
C23_ArtifactIndependentOfCompletionOrder ==
  /\ \A f \in parsed : scratch[f] = ResultOf(f)
  /\ rpc \in {"upload", "uploaded"} => unique = ArtifactOf(viaFallback)
  /\ rpc = "uploaded" => archived = ArtifactOf(viaFallback)

C23_Witness ==
  /\ rpc = "uploaded"
  /\ order = <<"f3", "f1", "f2">>
  /\ viaFallback
  /\ archived.bulk = MAX_SET_SIZE - 1
  /\ Len(archived.head) = 2
  /\ archived.head[1] = archived.head[2]

\* the records of a file that JSON.parse accepts
RECURSIVE WellFormed(_)
WellFormed(recs) ==
  IF recs = <<>> THEN <<>>
  ELSE (IF Head(recs).json THEN <<Head(recs)>> ELSE <<>>)
         \o WellFormed(Tail(recs))

\* C24: a file fails only when its read stream fails, whatever its lines;
\* the scratch file of a file is the one the file gives with its malformed
\* lines left out, so the lines after a malformed line are classified; a
\* readable file of malformed lines only is a success with no record.
C24_MalformedLineNeverFatal ==
  \A f \in parsed :
    /\ f \in failedFiles <=> ~logFiles[f].readable
    /\ f \notin failedFiles =>
         /\ scratch[f] =
              ScratchOf([logFiles[f] EXCEPT !.records = WellFormed(@)])
         /\ WellFormed(logFiles[f].records) = <<>> =>
              scratch[f] = [EmptyFile EXCEPT !.bulk = logFiles[f].bulk]

C24_Witness ==
  /\ logFiles.f1.records = <<Rec(FALSE, 0, 0), Rec(TRUE, 1, 1)>>
  /\ "f1" \in parsed \ failedFiles
  /\ Len(scratch.f1.head) = 1
  /\ TupleOf(scratch.f1.head[1]) = <<<<1, 1>>, HashIP(1), 1>>

\* the lines before line n of file f that identifyItem cannot resolve
Unidentified(f, n) ==
  SelectSeq2([i \in DOMAIN f |-> i],
             {i \in DOMAIN f : i < n /\ f[i] = "unidentified"})

RECURSIVE Flatten(_)
Flatten(batches) ==
  IF batches = <<>> THEN <<>> ELSE Head(batches) \o Flatten(Tail(batches))

\* C25: the pending batch of a file never exceeds 30 candidates and is
\* never left full; every batch handed to processBatchSSHChecks holds 1 to
\* 30 candidates and is full unless it is handed over at the end of the
\* file; the batches handed over, followed by the pending batch, are the
\* candidates read so far, each once and in file order, and after the last
\* line every candidate has been handed over.
C25_BatchesOfAtMostThirty ==
  \A t \in Tasks :
    LET tk == task[t]
        last == Len(tk.handed)
    IN
      /\ Len(tk.unidentifiedFiles) <= BATCH_SIZE
      /\ \A k \in DOMAIN tk.handed :
           /\ Len(tk.handed[k]) \in 1..BATCH_SIZE
           /\ \/ Len(tk.handed[k]) = BATCH_SIZE
              \/ k = last /\ tk.pos > Len(tk.file)
      /\ tk.pc = "read" =>
           /\ Len(tk.unidentifiedFiles) < BATCH_SIZE
           /\ Flatten(tk.handed) \o tk.unidentifiedFiles
                = Unidentified(tk.file, tk.pos)
      /\ tk.pc \in {"sleep", "returned"} =>
           /\ last >= 1
           /\ tk.unidentifiedFiles = tk.handed[last]
           /\ Flatten(tk.handed) = Unidentified(tk.file, tk.pos)
      /\ tk.pc = "done" =>
           Flatten(tk.handed) = Unidentified(tk.file, Len(tk.file) + 1)

C25_Witness ==
  /\ task[1].file = LongFile
  /\ task[1].pc = "done"
  /\ task[1].handed = <<[i \in 1..BATCH_SIZE |-> i]>>
  /\ task[2].file = <<"unidentified">>
  /\ task[2].pc = "done"
  /\ task[2].handed = << <<1>> >>

(* ---------------------------------------------------------------------- *)
(* Properties of the identifier cache (SpecHtmlMap)                        *)
(* ---------------------------------------------------------------------- *)
\* how often entry e occurs in the sequence s
Count(e, s) == Cardinality({i \in DOMAIN s : s[i] = e})

\* the entries of the batches of `batches`, as one batch
RECURSIVE AllOf(_)
AllOf(batches) ==
  IF batches = <<>> THEN EmptyQueue
  ELSE Push(Head(batches), AllOf(Tail(batches)))

\* C26: no statement of a flush, sent or awaiting its result, writes more
\* than HTML_MAP_BATCH_SIZE entries.
C26_FlushAtMostHundredEntries ==
  /\ flushLog.largest <= HTML_MAP_BATCH_SIZE
  /\ \A i \in DOMAIN flights : Size(flights[i]) <= HTML_MAP_BATCH_SIZE

\* C27: every entry addToHtmlMap has queued is on the queue, in a flush
\* that awaits its result, or in a statement that succeeded, as often as it
\* was queued; html_map holds one row per key, with the value of its entry,
\* however often the entry has been written; and once the queue and the
\* flushes are empty the table holds exactly the keys that were queued.
C27_ReflushIsSafe ==
  LET inFlight == AllOf(flights) IN
    /\ flushLog.added.fresh =
         htmlMapInsertQueue.fresh + htmlMapInsertQueue.again
           + inFlight.fresh + inFlight.again
           + flushLog.done.fresh + flushLog.done.again
    /\ \A e \in Items :
         Count(e, flushLog.added.items) =
           Count(e, htmlMapInsertQueue.items) + Count(e, inFlight.items)
             + Count(e, flushLog.done.items)
    /\ html_map.bulk =
         flushLog.done.fresh + flushLog.done.again
           + htmlMapInsertQueue.again + inFlight.again
    /\ \A i \in DOMAIN html_map.rows :
         /\ html_map.rows[i] \in SeqToSet(flushLog.added.items)
         /\ \A j \in DOMAIN html_map.rows :
              i # j => html_map.rows[i].md5Item # html_map.rows[j].md5Item
    /\ SeqToSet(flushLog.done.items) \subseteq SeqToSet(html_map.rows)
    /\ (Size(htmlMapInsertQueue) = 0 /\ flights = <<>>) =>
         /\ SeqToSet(html_map.rows) = SeqToSet(flushLog.added.items)
         /\ html_map.bulk = flushLog.added.fresh

C27_Witness ==
  /\ Size(htmlMapInsertQueue) = 0
  /\ flights = <<>>
  /\ flushLog.failures = 2
  /\ flushLog.rewrites >= HTML_MAP_BATCH_SIZE
  /\ flushLog.done.again >= HTML_MAP_BATCH_SIZE - 2
  /\ Len(flushLog.done.items) = 2
  /\ Len(html_map.rows) = 1
  /\ html_map.bulk = HTML_MAP_BATCH_SIZE - 1

\* the date keys this run has downloaded, classified, uploaded or committed
ProcessedByRun ==
  runLog.downloaded \cup runLog.classified \cup runLog.uploaded
    \cup runLog.inserted

\* C28: the partition with the greatest date key of the listing is never a
\* candidate and is never downloaded, classified, uploaded or committed by
\* the run, whether or not it has a row; a listing of one partition yields an
\* empty catalog.
C28_MostRecentNeverProcessed ==
  /\ bucket # {} =>
       /\ ~Candidate(MostRecent(bucket))
       /\ MostRecent(bucket) \notin ProcessedByRun
  /\ Cardinality(bucket) = 1 => filteredFolders = <<>>

C28_Witness ==
  /\ pc = "done"
  /\ genderResults = Success
  /\ runLog.inserted # {}
  /\ RowCount(MostRecent(bucket)) = 0

\* s is strictly ascending by date key
Ascending(s) ==
  \A i, j \in DOMAIN s : i < j => FolderDate(s[i]) < FolderDate(s[j])

\* C29: the sorted listing is the ascending arrangement of the listed
\* partitions whatever the order of the listing and the outcome of the
\* shuffle, the catalog is ascending, and every partition the loop takes up
\* or downloads has a greater date key than those taken up before it.
C29_AscendingDateOrder ==
  /\ [](/\ Ascending(sortedFolders)
        /\ Ascending(filteredFolders)
        /\ sortedFolders # <<>> =>
             SeqToSet(sortedFolders) = {FolderPath(bucketName, d) : d \in bucket})
  /\ [][/\ (idx > 0 /\ idx' > idx /\ idx' \in DOMAIN filteredFolders') =>
             FolderDate(filteredFolders'[idx']) > FolderDate(filteredFolders[idx])
        /\ \A d \in runLog'.downloaded \ runLog.downloaded :
             \A e \in runLog.downloaded : e < d]_vars

C29_Witness ==
  /\ Len(filteredFolders) >= 2
  /\ idx = 2
  /\ Cardinality(runLog.downloaded) = 2

\* C30: in a run whose listing or state query has failed, processGender is
\* over with a failure, the catalog is empty, no date key is downloaded,
\* classified, uploaded or committed, and no step changes the table, the
\* archive bucket or the staging directory.
C30_CatalogFailureNothingProcessed ==
  /\ [](runLog.catalogFailed =>
          /\ pc = "done"
          /\ genderResults = Failure
          /\ filteredFolders = <<>>
          /\ ProcessedByRun = {})
  /\ [][(runLog.catalogFailed /\ runLog'.catalogFailed) =>
          UNCHANGED <<logs, archive, staging>>]_vars

C30_Witness ==
  /\ runLog.catalogFailed
  /\ sortedFolders # <<>>
  /\ \E d \in bucket : RowCount(d) = 0 /\ d # MostRecent(bucket)

\* C32: no step of a run removes from notFoundFile a path that this run has
\* recorded in it: the paths of a partition classified by the run stay
\* through the cleaning, download and commit steps of every later partition.
C32_NotFoundLogAppendOnly ==
  [][runs' = runs =>
       (staging.notfound \cap runLog.classified) \subseteq staging'.notfound]_vars

\* C38: rcloneCopy hands a failed upload back as 'failed' and raises nothing:
\* after the archive upload of a partition has failed the process has exited
\* (no result of the run was returned through the catch), the four local
\* artifacts of the partition are still there, and the run has neither
\* deleted them nor inserted a state row for the partition.
C38_UploadFailureExitsKeepingArtifacts ==
  runLog.uploadFailed # 0 =>
    /\ pc = "exited"
    /\ genderResults = <<>>
    /\ Artifacts \subseteq staging.files
    /\ runLog.uploadFailed \notin
         (runLog.cleaned \cup runLog.verified \cup runLog.inserted)

C38_Witness ==
  /\ runLog.uploadFailed # 0
  /\ pc = "exited"
  /\ runLog.inserted # {}
  /\ Artifacts \subseteq staging.files

(* ---------------------------------------------------------------------- *)
(* Properties of the connection pool (SpecPool)                            *)
(* ---------------------------------------------------------------------- *)
\* C35: every statement of a sqlQuery call is executed on a connection whose
\* selected database is the database passed to the call; in particular the
\* insert of the state row (call 1) is executed with databaseGlobal selected.
C35_StatementOnItsDatabase ==
  \A e \in executed : e.on = e.database

(* ---------------------------------------------------------------------- *)
(* Properties of the identifier cache (SpecCache)                          *)
(* ---------------------------------------------------------------------- *)
\* C39: within a run an entry of the identifier cache is never changed or
\* removed once it is there.  So when concurrent calls resolve the same URL
\* the value of the first writer stays and is what every call that found a
\* row returns, and a call made when the entry is there returns the entry
\* and makes no lookup.
C39_CacheEntriesAreFinal ==
  /\ [][\A k \in Md5Items :
          md5Associations[k] # NoEntry
            => md5Associations'[k] = md5Associations[k]]_vars
  /\ [](\A r \in Resolves :
          /\ (resolve[r].pc = "returned" /\ resolve[r].ret # NotIdentified)
               => resolve[r].ret = md5Associations[resolve[r].url]
          /\ resolve[r].cached
               => resolve[r].pc = "returned" /\ resolve[r].lookups = 0)

\* two calls have looked the same URL up at the same time and found different
\* identifiers, a third call came after the entry was written, and all three
\* have returned
C39_Witness ==
  \E a, b, c \in Resolves :
    /\ resolve[a].pc = "returned" /\ resolve[b].pc = "returned"
    /\ resolve[c].pc = "returned"
    /\ resolve[a].url = resolve[b].url /\ resolve[c].url = resolve[a].url
    /\ resolve[a].lookups = 1 /\ resolve[b].lookups = 1
    /\ resolve[a].found # NoEntry /\ resolve[b].found # NoEntry
    /\ resolve[a].found # resolve[b].found
    /\ resolve[a].ret = resolve[b].ret
    /\ resolve[c].cached /\ resolve[c].ret = resolve[a].ret

====
